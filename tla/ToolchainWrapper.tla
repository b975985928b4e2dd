--------------------------- MODULE ToolchainWrapper ---------------------------
(***************************************************************************)
(* toolchain/toolchain-wrapper.c, the program installed under the names of *)
(* the cross compilers: it finds the real compiler next to itself, refuses *)
(* search paths of the build machine, puts the options of the target       *)
(* before those of the caller in a buffer sized beforehand, and executes   *)
(* the compiler, through ccache when asked to.  How it was compiled (the   *)
(* BR_ macros) is the record build.  Tracing and messages are left out.    *)
(*                                                                         *)
(* An argument is an option and the text joined to it; a file or a         *)
(* directory on its own is a text without an option.                       *)
(***************************************************************************)
EXTENDS Integers, Sequences

CONSTANTS
    Builds,     \* records [ccache, predef, float_abi, fp32, arch, cpu, epoch, pie, relro]
    ArgLists    \* the argument lists of the calls

VARIABLE wrapper

NoWrapper == [phase |-> "none"]
EXCLUSIVE_ARGS == 10

------------------------------------------------------------------------------
unsafe_opts == <<"-I", "-idirafter", "-iquote", "-isystem", "-L">>
unsafe_paths == {"/lib", "/usr/include", "/usr/lib", "/usr/local/include",
                 "/usr/local/lib", "/usr/X11R6/include", "/usr/X11R6/lib"}

Argument == [opt : STRING, text : STRING]
TakesPath(a) == \E k \in DOMAIN unsafe_opts : a.opt = unsafe_opts[k]

(* -mfloat-abi= is defined for ARM only and -mfp for MIPS only             *)
(* (arch/Config.in.arm, arch/Config.in.mips).  The predefined words start  *)
(* with the compiler, after ccache when there is one, and what Buildroot   *)
(* puts there itself has no search path.                                   *)
ASSUME BuildsAssumption ==
    \A b \in Builds :
        /\ b.ccache \in BOOLEAN /\ b.relro \in {"none", "partial", "full"}
        /\ ~(b.float_abi /\ b.fp32)
        /\ b.predef \in Seq(Argument) /\ Len(b.predef) >= IF b.ccache THEN 2 ELSE 1
        /\ b.predef[1].opt = IF b.ccache THEN "ccache" ELSE "gcc"
        /\ b.ccache => b.predef[2].opt = "gcc"
        /\ \A i \in DOMAIN b.predef : ~TakesPath(b.predef[i])
ASSUME ArgListsAssumption == \A args \in ArgLists : args \in Seq(Argument)

(* check_unsafe_path, on an argument taken as a path.                      *)
IsUnsafe(arg) == arg.opt = "" /\ arg.text \in unsafe_paths

Refused_Joined(args) ==
    \E i \in DOMAIN args : TakesPath(args[i]) /\ args[i].text \in unsafe_paths

(* The two loops: argument i is compared with option k.  After a separate  *)
(* path the inner loop goes on with the next option and that path.         *)
Scan(args) ==
    LET n == Len(args)
        from[c \in (1 .. n + 1) \X (1 .. Len(unsafe_opts) + 1)] ==
            LET i == c[1]
                k == c[2]
            IN  IF i > n THEN FALSE
                ELSE IF k > Len(unsafe_opts) THEN from[<<i + 1, 1>>]
                ELSE IF args[i].opt # unsafe_opts[k] THEN from[<<i, k + 1>>]
                ELSE IF args[i].text # "" THEN args[i].text \in unsafe_paths \/ from[<<i, k + 1>>]
                ELSE i < n /\ (IsUnsafe(args[i + 1]) \/ from[<<i + 1, k + 1>>])
    IN  from

Refused(args) == Scan(args)[<<1, 1>>]

------------------------------------------------------------------------------
(* The options put before those of the caller.                             *)
Opt(o) == <<[opt |-> o, text |-> ""]>>
NoOpt == <<>>
Given(args, opts) == \E i \in DOMAIN args : args[i].opt \in opts
Linking(args) == \E i \in DOMAIN args : args[i].opt = ""

(* Linker flags are left out when no file is given.                        *)
Kept(b, args) ==
    LET words[i \in 0 .. Len(b.predef)] ==
            IF i = 0 THEN <<>>
            ELSE IF Linking(args) \/ b.predef[i].opt # "-Wl,"
            THEN Append(words[i - 1], b.predef[i]) ELSE words[i - 1]
    IN  words

Predefined(b, args) == Kept(b, args)[Len(b.predef)]

FloatAbi(b, args) ==
    IF b.float_abi /\ ~Given(args, {"-mfloat-abi=", "-msoft-float", "-mhard-float"})
    THEN Opt("-mfloat-abi=") ELSE NoOpt

(* Not when the last word is -msoft-float.                                 *)
Fp32(b, args) ==
    LET says(i) == args[i].opt \in {"-msoft-float", "-mhard-float"}
        soft == \E i \in DOMAIN args :
                    /\ args[i].opt = "-msoft-float"
                    /\ \A j \in DOMAIN args : says(j) => j <= i
    IN  IF b.fp32 /\ ~soft THEN Opt("-mfp") ELSE NoOpt

ArchCpu(b, args) ==
    IF Given(args, {"-march=", "-mtune=", "-mcpu="}) THEN NoOpt
    ELSE (IF b.arch THEN Opt("-march=") ELSE NoOpt) \o (IF b.cpu THEN Opt("-mcpu=") ELSE NoOpt)

(* SOURCE_DATE_EPOCH, for compilers that do not read it themselves.        *)
Epoch(b, env) ==
    IF b.epoch /\ env = "valid"
    THEN Opt("-D__TIME__=") \o Opt("-D__DATE__=") \o Opt("-Wno-builtin-macro-redefined")
    ELSE NoOpt

Boot == {"-D__KERNEL__", "-D__UBOOT__"}

(* -shared only counts when no argument rules PIE out.                     *)
Pie(b, args) ==
    IF ~b.pie \/ Given(args, {"-r", "-Wl,-r", "-static", "-fno-pie", "-fno-PIE", "-no-pie"} \cup Boot)
    THEN NoOpt
    ELSE (IF Given(args, {"-fpie", "-fPIE", "-fpic", "-fPIC"}) THEN NoOpt ELSE Opt("-fPIE"))
         \o (IF Given(args, {"-shared"}) THEN NoOpt ELSE Opt("-pie"))

Relro(b, args) ==
    IF Given(args, Boot) \/ ~Linking(args) THEN NoOpt
    ELSE CASE b.relro = "none"    -> NoOpt
           [] b.relro = "partial" -> Opt("-Wl,-z,relro")
           [] b.relro = "full"    -> Opt("-Wl,-z,now") \o Opt("-Wl,-z,relro")

(* The buffer: room for the predefined options, for argc + EXCLUSIVE_ARGS  *)
(* pointers, argv[0] among argc; the last one stored is NULL.              *)
Capacity(b, args) == Len(b.predef) + (Len(args) + 1) + EXCLUSIVE_ARGS
Built(b, args, env) ==
    Predefined(b, args) \o FloatAbi(b, args) \o Fp32(b, args) \o ArchCpu(b, args)
        \o Epoch(b, env) \o Pie(b, args) \o Relro(b, args) \o args

------------------------------------------------------------------------------
At(phase) == wrapper.phase = phase
Fails(code) == wrapper' = [wrapper EXCEPT !.phase = "failed", !.code = code]

(* The compiler is found from argv[0], or from /proc/self/exe when that is *)
(* a bare name; the directory may be unreadable or its path too long.      *)
Locate ==
    /\ At("called")
    /\ \/ \E code \in {2, 3} : Fails(code)
       \/ wrapper' = [wrapper EXCEPT !.phase = "located"]

CheckPaths ==
    /\ At("located")
    /\ IF Refused(wrapper.args) THEN Fails(1) ELSE wrapper' = [wrapper EXCEPT !.phase = "checked"]

(* An invalid SOURCE_DATE_EPOCH ends the program when it would be used.    *)
BuildArgs ==
    /\ At("checked")
    /\ \/ Fails(2) \/ Fails(3)
       \/ wrapper.build.epoch /\ wrapper.env = "invalid" /\ Fails(1)
       \/ /\ wrapper.build.epoch => wrapper.env # "invalid"
          /\ wrapper' = [wrapper EXCEPT !.phase = "built",
                                        !.exec = Built(wrapper.build, wrapper.args, wrapper.env)]

(* Without BR2_USE_CCACHE=1 the first word, ccache, is skipped; with it,    *)
(* what ccache is told in the environment may not fit in.                   *)
Execute ==
    /\ At("built")
    /\ \E use_ccache \in BOOLEAN :
          \/ wrapper' = [wrapper EXCEPT !.phase = "executed",
                                        !.exec = IF wrapper.build.ccache /\ ~use_ccache THEN Tail(@) ELSE @]
          \/ Fails(2)
          \/ wrapper.build.ccache /\ use_ccache /\ Fails(3)

WrapperInit ==
    \E build \in Builds, args \in ArgLists, env \in {"unset", "valid", "invalid"} :
        wrapper = [phase |-> "called", build |-> build, args |-> args, env |-> env,
                   exec |-> <<>>, code |-> 0]

WrapperNext == Locate \/ CheckPaths \/ BuildArgs \/ Execute

WrapperSpec == WrapperInit /\ [][WrapperNext]_wrapper

------------------------------------------------------------------------------
(* The search paths as the compiler reads its arguments from left to       *)
(* right: an option without a joined text takes the next argument.         *)
PathsFrom(args) ==
    LET n == Len(args)
        from[i \in 1 .. n + 2] ==
            IF i > n THEN {}
            ELSE IF ~TakesPath(args[i]) THEN from[i + 1]
            ELSE IF args[i].text # "" THEN {[opt |-> "", text |-> args[i].text]} \cup from[i + 1]
            ELSE (IF i < n THEN {args[i + 1]} ELSE {}) \cup from[i + 2]
    IN  from

Paths(args) == PathsFrom(args)[1]

(* An option where a path is expected: the wrapper then also takes it as   *)
(* an option, with the argument after it as its path.                      *)
OptionAsPath(args) ==
    \E i \in 1 .. Len(args) - 1 :
        TakesPath(args[i]) /\ args[i].text = "" /\ args[i + 1].opt # ""

(* What is executed fits the buffer it was built in, ends with the         *)
(* caller's arguments in their order, so that they win over the predefined *)
(* ones, starts with the compiler or ccache, and, unless an option stands  *)
(* where a path is expected, has no search path of the build machine.      *)
ExecutedIsSafe ==
    wrapper.phase \in {"built", "executed"} =>
        /\ Len(wrapper.exec) + 1 <= Capacity(wrapper.build, wrapper.args)
        /\ LET k == Len(wrapper.exec) - Len(wrapper.args)
           IN  k >= 0 /\ SubSeq(wrapper.exec, k + 1, Len(wrapper.exec)) = wrapper.args
        /\ wrapper.exec[1].opt \in {"ccache", "gcc"}
        /\ OptionAsPath(wrapper.args) \/ \A p \in Paths(wrapper.exec) : ~IsUnsafe(p)
==============================================================================
