---------------------------- MODULE CompilerFlags ----------------------------
(***************************************************************************)
(* The configure-time flag selection of                                    *)
(* src/.waf-tools/default-compiler-flags.py: configure() (version gate,    *)
(* general flags), then the wscript's later call of check_compiler_flags() *)
(* (debug or optimized flags), with add_supported_cxxflags and             *)
(* add_supported_linkflags compile-testing each flag group.                *)
(*                                                                         *)
(* A flag is a string; a flag group is a sequence of flags tested and      *)
(* added together (Utils.to_list of one entry of a flag list).  The long   *)
(* warning lists of the flag classes are represented by a few of their     *)
(* members: the others are added and tested the same way.                 *)
(***************************************************************************)
EXTENDS Naturals, Sequences, SequencesExt

CONSTANTS
  Compilers,         \* values of env.CXX_NAME
  Versions,          \* values of env.CC_VERSION as integer tuples
  Platforms,         \* values of Utils.unversioned_sys_platform()
  Machines,          \* values of platform.machine()
  UserCxxChoices,    \* CXXFLAGS given by the user's environment
  UserLinkChoices,   \* LINKFLAGS given by the user's environment
  RejectChoices      \* sets of flags the compiler's check_cxx rejects

VARIABLES
  host,        \* the fixed inputs: compiler, version, platform, options
  pc,          \* "start", "configured", "done" or "failed" (conf.fatal)
  flags,       \* conf.flags: the flag class, "none" before configure
  custom,      \* conf.areCustomCxxflagsPresent
  env          \* env.CXXFLAGS, env.LINKFLAGS, env.DEFINES

vars == <<host, pc, flags, custom, env>>

Classes == {"CompilerFlags", "GccFlags", "ClangFlags"}

-----------------------------------------------------------------------------
(* The flag tables of the flag classes, as records of flag-group lists. *)

Grp(f) == <<f>>
Table(cxx, link, def) == [CXXFLAGS |-> cxx, LINKFLAGS |-> link, DEFINES |-> def]

\* CompilerFlags: nothing but the mode define.
BaseGeneral == Table(<<>>, <<>>, <<>>)
BaseMode(debug) == Table(<<>>, <<>>, IF debug THEN <<"_DEBUG">> ELSE <<"NDEBUG">>)

\* GccBasicFlags.getGeneralFlags: C++17, and lld except on macOS.
GccBasicGeneral(plat) ==
  Table(<<Grp("-std=c++17")>>,
        IF plat # "darwin" THEN <<Grp("-fuse-ld=lld")>> ELSE <<>>, <<>>)

\* GccBasicFlags.getDebugFlags / getOptimizedFlags, appended to the base.
GccBasicMode(debug) ==
  LET b == BaseMode(debug)
  IN [b EXCEPT
        !.CXXFLAGS = IF debug
                     THEN <<Grp("-Og"), Grp("-g3"), Grp("-Wall"), Grp("-Werror")>>
                     ELSE <<Grp("-O2"), Grp("-g"), Grp("-Wall")>>,
        !.LINKFLAGS = <<Grp("-Wl,-O1")>>]

\* GccFlags: colour and -Wredundant-tags, and -Wno-psabi on armv7l.
GccExtra(mach) ==
  <<Grp("-fdiagnostics-color"), Grp("-Wredundant-tags")>>
    \o (IF mach = "armv7l" THEN <<Grp("-Wno-psabi")>> ELSE <<>>)

\* ClangFlags.getGeneralFlags: Homebrew and MacPorts include directories on
\* macOS, /usr/local/include on FreeBSD, each a two-flag group.
ClangIncludes(plat, mach) ==
  CASE plat = "darwin" ->
         <<<<"-isystem", IF mach = "arm64" THEN "/opt/homebrew/include"
                         ELSE "/usr/local/include">>,
           <<"-isystem", "/opt/local/include">>>>
    [] plat = "freebsd" -> <<<<"-isystem", "/usr/local/include">>>>
    [] OTHER -> <<>>

\* ClangFlags debug and optimized additions.
ClangExtra == <<Grp("-fcolor-diagnostics"), Grp("-Wno-unused-local-typedef")>>

\* conf.flags.getGeneralFlags(conf) for class cls.
GeneralFlags(cls, h) ==
  CASE cls = "CompilerFlags" -> BaseGeneral
    [] cls = "GccFlags" -> GccBasicGeneral(h.plat)
    [] cls = "ClangFlags" ->
         LET g == GccBasicGeneral(h.plat)
         IN [g EXCEPT !.CXXFLAGS = @ \o ClangIncludes(h.plat, h.mach)]

\* getDebugFlags or getOptimizedFlags, chosen by --debug.
ModeFlags(cls, h) ==
  CASE cls = "CompilerFlags" -> BaseMode(h.debug)
    [] cls = "GccFlags" ->
         LET m == GccBasicMode(h.debug)
         IN [m EXCEPT !.CXXFLAGS = @ \o GccExtra(h.mach)]
    [] cls = "ClangFlags" ->
         LET m == GccBasicMode(h.debug)
         IN [m EXCEPT !.CXXFLAGS = @ \o ClangExtra]

-----------------------------------------------------------------------------
(* add_supported_cxxflags / add_supported_linkflags. *)

\* check_cxx(cxxflags=['-Werror'] + group): the group compiles with every
\* one of its flags.
Accepted(h, g) == \A i \in DOMAIN g : g[i] \notin h.rejects

\* The flags of the accepted groups, in order.
Supported(h, groups) == FlattenSeq(SelectSeq(groups, LAMBDA g : Accepted(h, g)))

\* env.prepend_value(var, supportedFlags).
AddSupported(h, groups, current) == Supported(h, groups) \o current

\* conf.env.DEFINES += list
AddDefines(defs, extra) == defs \o extra

-----------------------------------------------------------------------------
(* configure(conf) *)

\* Mutant of FlagsClassOf: clang gets the shared base class.
FlagsClassOfBasicClang(cxx) ==
  CASE cxx = "gcc" -> "GccFlags"
    [] cxx = "clang" -> "GccBasicFlags"
    [] OTHER -> "CompilerFlags"

\* The flag class configure() installs for a compiler name.
FlagsClassOf(cxx) ==
  CASE cxx = "gcc" -> "GccFlags"
    [] cxx = "clang" -> "ClangFlags"
    [] OTHER -> "CompilerFlags"

\* Python's tuple comparison: lexicographic over the integer components.
RECURSIVE TupleLess(_, _)
TupleLess(a, b) ==
  IF a = <<>> THEN b # <<>>
  ELSE IF b = <<>> THEN FALSE
  ELSE a[1] < b[1] \/ (a[1] = b[1] /\ TupleLess(Tail(a), Tail(b)))

\* conf.areCustomCxxflagsPresent = (len(conf.env.CXXFLAGS) > 0)
CustomPresent(cxxflags) == Len(cxxflags) > 0

\* errmsg is set: the compiler is older than the supported minimum.
TooOld(h) ==
  \/ h.cxx = "gcc" /\ TupleLess(h.ver, <<7, 4, 0>>)
  \/ h.cxx = "clang" /\ h.plat = "darwin" /\ TupleLess(h.ver, <<10, 0, 0>>)
  \/ h.cxx = "clang" /\ h.plat # "darwin" /\ TupleLess(h.ver, <<6, 0, 0>>)

\* Mutant of Configure: areCustomCxxflagsPresent is read after the general
\* flags have been added.
ConfigureCustomAfterGeneral ==
  /\ pc = "start"
  /\ flags' = FlagsClassOf(host.cxx)
  /\ IF TooOld(host)
     THEN /\ pc' = "failed"
          /\ UNCHANGED <<custom, env>>
     ELSE LET g == GeneralFlags(flags', host)
              cxx == AddSupported(host, g.CXXFLAGS, env.CXXFLAGS)
          IN /\ custom' = CustomPresent(cxx)
             /\ env' = [CXXFLAGS |-> cxx,
                        LINKFLAGS |-> AddSupported(host, g.LINKFLAGS, env.LINKFLAGS),
                        DEFINES |-> AddDefines(env.DEFINES, g.DEFINES)]
             /\ pc' = "configured"
  /\ UNCHANGED host

\* configure(conf): pick the flag class, reject a too-old compiler with
\* conf.fatal, record whether the user gave CXXFLAGS, then apply the
\* general flags the compiler accepts.
Configure ==
  /\ pc = "start"
  /\ flags' = FlagsClassOf(host.cxx)
  /\ IF TooOld(host)
     THEN /\ pc' = "failed"
          /\ UNCHANGED <<custom, env>>
     ELSE LET g == GeneralFlags(flags', host)
          IN /\ custom' = CustomPresent(env.CXXFLAGS)
             /\ env' = [CXXFLAGS |-> AddSupported(host, g.CXXFLAGS, env.CXXFLAGS),
                        LINKFLAGS |-> AddSupported(host, g.LINKFLAGS, env.LINKFLAGS),
                        DEFINES |-> AddDefines(env.DEFINES, g.DEFINES)]
             /\ pc' = "configured"
  /\ UNCHANGED host

\* check_compiler_flags(conf): the mode flags the compiler accepts are
\* added only when the user gave no CXXFLAGS; the mode DEFINES always are.
CheckCompilerFlags ==
  /\ pc = "configured"
  /\ LET m == ModeFlags(flags, host)
     IN env' = [CXXFLAGS |-> IF custom THEN env.CXXFLAGS
                             ELSE AddSupported(host, m.CXXFLAGS, env.CXXFLAGS),
                LINKFLAGS |-> IF custom THEN env.LINKFLAGS
                              ELSE AddSupported(host, m.LINKFLAGS, env.LINKFLAGS),
                DEFINES |-> AddDefines(env.DEFINES, m.DEFINES)]
  /\ pc' = "done"
  /\ UNCHANGED <<host, flags, custom>>

\* Configuration ended, successfully or with conf.fatal.
Done ==
  /\ pc \in {"done", "failed"}
  /\ UNCHANGED vars

Init ==
  /\ host \in [cxx : Compilers, ver : Versions, plat : Platforms, mach : Machines,
               debug : BOOLEAN, rejects : RejectChoices,
               userCxx : UserCxxChoices, userLink : UserLinkChoices]
  /\ host.plat = "darwin" => host.mach # "armv7l"   \* no 32-bit ARM macOS
  /\ pc = "start"
  /\ flags = "none"
  /\ custom = FALSE
  /\ env = [CXXFLAGS |-> host.userCxx, LINKFLAGS |-> host.userLink, DEFINES |-> <<>>]

Next == Configure \/ CheckCompilerFlags \/ Done

Spec == Init /\ [][Next]_vars

-----------------------------------------------------------------------------
Flag == STRING

TypeOK ==
  /\ pc \in {"start", "configured", "done", "failed"}
  /\ flags \in Classes \cup {"none"}
  /\ custom \in BOOLEAN
  /\ env \in [CXXFLAGS : Seq(Flag), LINKFLAGS : Seq(Flag), DEFINES : Seq(Flag)]

(***************************************************************************)
(* The layering the comments of configure() and check_compiler_flags()     *)
(* promise, from the user's environment to the final one: the default     *)
(* (debug or optimized) flags the compiler accepts come first, and only    *)
(* when the user gave no CXXFLAGS; the accepted general flags always       *)
(* follow; the user's own flags stay last and unchanged; the mode DEFINES  *)
(* are always added.                                                       *)
(***************************************************************************)
FlagLayering ==
  pc = "done" =>
    LET cls == FlagsClassOf(host.cxx)
        g == GeneralFlags(cls, host)
        m == ModeFlags(cls, host)
        defaults(groups) == IF host.userCxx = <<>> THEN Supported(host, groups) ELSE <<>>
    IN /\ env.CXXFLAGS = defaults(m.CXXFLAGS) \o Supported(host, g.CXXFLAGS) \o host.userCxx
       /\ env.LINKFLAGS = defaults(m.LINKFLAGS) \o Supported(host, g.LINKFLAGS) \o host.userLink
       /\ env.DEFINES = g.DEFINES \o m.DEFINES

(***************************************************************************)
(* The comment of check_compiler_flags (lines 58-59): debug or optimized   *)
(* LINKFLAGS are applied exactly when the LINKFLAGS environment variable   *)
(* is not set.                                                             *)
(***************************************************************************)
LinkDefaultsFollowLinkflags ==
  pc = "done" =>
    LET m == ModeFlags(FlagsClassOf(host.cxx), host)
        wanted == Supported(host, m.LINKFLAGS)
    IN wanted # <<>> =>
         (host.userLink = <<>> <=> IsPrefix(wanted, env.LINKFLAGS))

=============================================================================
