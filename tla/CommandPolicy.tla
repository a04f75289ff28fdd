----------------------------- MODULE CommandPolicy -----------------------------
(***************************************************************************)
(* From the start of the server to a command that may be spawned:          *)
(* loadPolicy of src/config/load.ts, CommandPolicyEvaluator.prepare of     *)
(* src/policy/command-policy.ts, and src/policy/path-policy.ts.            *)
(*                                                                         *)
(* prepare() looks at the file system in several awaits.  While nobody     *)
(* else changes it (stable) every look at a path sees the same node; after *)
(* a change a look may see any.                                            *)
(***************************************************************************)
EXTENDS Integers, FiniteSets, SequencesExt

CONSTANTS
    Directories, Unusable,   \* canonical directories; a path that is none
    MaxTrusted,              \* bound, per platform: configured directories
    Names,                   \* of executables
    LowerCase,               \* of each name
    Malformed, Suffixed,     \* with a separator, ...; lower case, in .exe or .com
    Privileged, Inherited,   \* doas, sudo, ...; what each JavaScript object has
    Policies, DefaultPolicy, \* what the rest of a policy file may say
    Commands                 \* [name, subcommandListed, env]

ASSUME NamesAssumption ==
    /\ LowerCase \in [Names -> Names]
    /\ \A name \in Names : LowerCase[LowerCase[name]] = LowerCase[name]
ASSUME PoliciesAssumption == DefaultPolicy \in Policies
ASSUME CommandsAssumption ==
    \A c \in Commands : c \in [name : Names, subcommandListed : BOOLEAN,
                             env : Seq({"listed", "unlisted", "denied"})]
ASSUME UnusableAssumption == Unusable \notin Directories

Platforms == {"posix", "win32"}
ASSUME MaxTrustedAssumption == MaxTrusted \in [Platforms -> Nat \ {0}]

Phases    == {"starting", "failed", "idle", "cwd", "cwd_stat", "exe", "exe_stat",
              "exe_access", "done"}

VARIABLES
    platform,
    startup,    \* what loadPolicy finds: environment, policy file, directories
    phase,      \* what the program awaits next
    trusted,    \* trustedExecutableDirectories
    policy, command,
    fs,         \* the node at each path that prepare() looks at
    stable,     \* nobody has changed it
    candidate,  \* index of the candidate that is being looked at
    inside,     \* where realpath led: inside a root, in a trusted directory
    result      \* "none", a rejection code or "prepared"

prepare == <<command, fs, stable, candidate, inside, result>>
vars    == <<platform, startup, phase, trusted, policy, prepare>>

\* environment: "conflicting" when a variable and its legacy name differ,
\* "malformed" when the log level or OS_EXEC_LEGACY_TOOLS is no legal value.
Startups(p) ==
    [environment : {"legal", "conflicting", "malformed"},
     file : {"none", "unreadable", "invalid", "valid"}, explicit : BOOLEAN,
     rootsUsable : BOOLEAN,
     directories : BoundedSeq(Directories \cup {Unusable}, MaxTrusted[p])]
Loaded == [loaded |-> TRUE]   \* the locals of loadPolicy are gone

\* No node, a directory, a file that is no program, and programs.
Nodes    == {[kind |-> k, inside |-> TRUE] : k \in {"directory", "file", "program"}}
              \cup {[kind |-> k, inside |-> FALSE] : k \in {"missing", "program"}}
CwdNodes == [kind : {"directory"}, inside : BOOLEAN]
              \cup [kind : {"missing", "file"}, inside : {TRUE}]

NoCommand == [name |-> "none"]
NoFiles   == [cwd |-> <<>>, exe |-> <<>>]

Init ==
    /\ platform \in Platforms
    /\ startup \in Startups(platform)
    /\ phase = "starting"
    /\ trusted = <<>> /\ policy = DefaultPolicy
    /\ command = NoCommand /\ fs = NoFiles /\ stable = TRUE /\ candidate = 1
    /\ inside = [cwd |-> FALSE, exe |-> FALSE] /\ result = "none"

-----------------------------------------------------------------------------
(***************************************************************************)
(* loadPolicy.  Nothing else runs before it has returned.                  *)
(***************************************************************************)
\* The file names the trusted directories; else they come from PATH and from
\* the platform's defaults.
Explicit(s) == s.file = "valid" /\ s.explicit

\* The usable directories, in order; [...new Set(...)] keeps the first of equal
\* elements.
UsableDirectories(s) ==
    LET given == s.directories
        upTo[i \in 0..Len(given)] ==
            IF i = 0 THEN <<>>
            ELSE IF given[i] \in {Unusable} \cup ToSet(upTo[i - 1]) THEN upTo[i - 1]
            ELSE Append(upTo[i - 1], given[i])
    IN  upTo[Len(given)]

\* Faulty variant: an explicit directory that is unusable is skipped as well.
StartFailsUnlessUsable(s) ==
    \/ s.environment # "legal" \/ s.file \in {"unreadable", "invalid"}
    \/ ~s.rootsUsable
    \/ UsableDirectories(s) = <<>>

StartFails(s) ==
    \/ s.environment # "legal" \/ s.file \in {"unreadable", "invalid"}
    \/ ~s.rootsUsable
    \/ Explicit(s) /\ Unusable \in ToSet(s.directories)
    \/ UsableDirectories(s) = <<>>

LoadPolicy ==
    /\ phase = "starting"
    /\ IF StartFails(startup)
       THEN phase' = "failed" /\ UNCHANGED <<startup, trusted, policy>>
       ELSE /\ phase' = "idle"
            /\ startup' = Loaded
            /\ trusted' = UsableDirectories(startup)
            /\ policy' \in IF startup.file = "valid" THEN Policies ELSE {DefaultPolicy}
    /\ UNCHANGED <<platform, prepare>>

-----------------------------------------------------------------------------
(***************************************************************************)
(* prepare(), up to its first await: what the name and the first argument  *)
(* decide.  Names are folded on Windows only, and only their case: git and *)
(* git.exe are two names, though the search may find one file for both.    *)
(***************************************************************************)
Normalized(name) == IF platform = "win32" THEN LowerCase[name] ELSE name

IsDenied(name) == \E denied \in policy.denied : Normalized(denied) = Normalized(name)

NoRight == [allowed |-> FALSE, readOnly |-> FALSE, restricted |-> FALSE, path |-> "none"]

\* Faulty variant: the table of rules is read without folding on Windows, too.
RulesAsWritten(name) ==
    {i \in DOMAIN policy.rules : policy.rules[i].name = name}

\* The entries found for a name, the first of which counts.
RulesOf(name) ==
    {i \in DOMAIN policy.rules : Normalized(policy.rules[i].name) = Normalized(name)}

\* policy.commands is a plain object: on POSIX a name that all objects have is
\* found in it, and what is found allows nothing.
RuleOf(name) ==
    IF RulesOf(name) # {} THEN policy.rules[Min(RulesOf(name))].rule
    ELSE IF platform = "posix" /\ name \in Inherited THEN NoRight
    ELSE [NoRight EXCEPT !.allowed = policy.mode = "denylist"]

NameVerdict(c) ==
    IF c.name \in Malformed THEN "invalid_executable_name"
    ELSE IF Normalized(c.name) \in Privileged THEN "privilege_elevation_denied"
    ELSE IF IsDenied(c.name) THEN "command_denied"
    ELSE IF ~RuleOf(c.name).allowed THEN "command_not_allowed"
    ELSE IF policy.readOnly /\ ~RuleOf(c.name).readOnly THEN "read_only_policy"
    ELSE IF RuleOf(c.name).restricted /\ ~c.subcommandListed THEN "subcommand_not_allowed"
    ELSE "ok"

\* The paths that resolveExecutable tries, in order: the one of the rule, or
\* one per trusted directory and extension.
Extensions(name) ==
    IF platform = "win32" /\ LowerCase[name] \notin Suffixed THEN 2 ELSE 1
Candidates(c) ==
    IF RuleOf(c.name).path # "none" THEN 1 ELSE Len(trusted) * Extensions(c.name)

\* The promise of prepare() settles: it throws, or returns the prepared command.
Settle(code) == phase' = "done" /\ result' = code

StartPrepare ==
    /\ phase = "idle"
    /\ \E c \in Commands :
         /\ command' = c
         /\ IF NameVerdict(c) # "ok"
            THEN Settle(NameVerdict(c)) /\ UNCHANGED fs
            ELSE /\ phase' = "cwd"
                 /\ fs' \in [cwd : CwdNodes, exe : [1..Candidates(c) -> Nodes]]
                 /\ UNCHANGED result
    /\ UNCHANGED <<platform, startup, trusted, policy, stable, candidate, inside>>

-----------------------------------------------------------------------------
(***************************************************************************)
(* resolveWorkingDirectory and resolveExecutable.                          *)
(***************************************************************************)
Unchanged == UNCHANGED <<platform, startup, trusted, policy, command, fs, stable>>

SeenCwd == IF stable THEN {fs.cwd} ELSE CwdNodes
SeenExe == IF stable THEN {fs.exe[candidate]} ELSE Nodes

RealpathCwd ==
    /\ phase = "cwd"
    /\ \E node \in SeenCwd :
         IF node.kind = "missing"
         THEN Settle("cwd_not_found") /\ UNCHANGED inside
         ELSE /\ phase' = "cwd_stat"
              /\ inside' = [inside EXCEPT !.cwd = node.inside]
              /\ UNCHANGED result
    /\ UNCHANGED candidate
    /\ Unchanged

StatCwd ==
    /\ phase = "cwd_stat"
    /\ \E node \in SeenCwd :
         IF node.kind = "missing" THEN Settle("cwd_not_found")
         ELSE IF node.kind = "file" THEN Settle("cwd_not_directory")
         ELSE IF ~inside.cwd THEN Settle("cwd_outside_workspace")
         ELSE IF RuleOf(command.name).path = "relative" THEN Settle("invalid_executable_path")
         ELSE phase' = "exe" /\ UNCHANGED result
    /\ UNCHANGED <<candidate, inside>>
    /\ Unchanged

\* Faulty variant: the first directory decides.
OnlyCandidate == Settle("executable_not_found") /\ UNCHANGED candidate

NextCandidate ==
    IF candidate < Candidates(command)
    THEN candidate' = candidate + 1 /\ phase' = "exe" /\ UNCHANGED result
    ELSE Settle("executable_not_found") /\ UNCHANGED candidate

RealpathExe ==
    /\ phase = "exe"
    /\ \E node \in SeenExe :
         IF node.kind = "missing"
         THEN NextCandidate /\ UNCHANGED inside
         ELSE /\ phase' = "exe_stat"
              /\ inside' = [inside EXCEPT !.exe = node.inside]
              /\ UNCHANGED <<candidate, result>>
    /\ Unchanged

StatExe ==
    /\ phase = "exe_stat"
    /\ \E node \in SeenExe :
         IF node.kind \in {"missing", "directory"}
         THEN NextCandidate
         ELSE phase' = "exe_access" /\ UNCHANGED <<candidate, result>>
    /\ UNCHANGED inside
    /\ Unchanged

\* The variables of the request, in order: the first that is refused counts.
EnvironmentVerdict(env) ==
    LET refused == {i \in DOMAIN env : env[i] # "listed"}
    IN  IF refused = {} THEN "prepared"
        ELSE IF env[Min(refused)] = "denied" THEN "environment_key_denied"
        ELSE "environment_key_not_allowed"

\* Faulty variant: the search goes by what the path is called.
AnyLocation == TRUE

\* Where the program may lie: anywhere for the path of a rule, and when PATH is
\* inherited; else in a trusted directory, also after all links.
AllowedLocation ==
    RuleOf(command.name).path # "none" \/ policy.inheritExecutablePath \/ inside.exe

AccessExe ==
    /\ phase = "exe_access"
    /\ \E node \in SeenExe :
         IF node.kind \in {"missing", "file"} \/ ~AllowedLocation
         THEN NextCandidate
         ELSE Settle(EnvironmentVerdict(command.env)) /\ UNCHANGED candidate
    /\ UNCHANGED inside
    /\ Unchanged

\* Another process changes the file system; from now on a look may see any node.
Change ==
    /\ stable
    /\ phase \notin {"starting", "failed", "idle", "done"}
    /\ stable' = FALSE /\ fs' = NoFiles
    /\ UNCHANGED <<platform, startup, phase, trusted, policy, command,
                   candidate, inside, result>>

Next == \/ LoadPolicy \/ StartPrepare \/ RealpathCwd \/ StatCwd
        \/ RealpathExe \/ StatExe \/ AccessExe \/ Change

Spec == Init /\ [][Next]_vars

-----------------------------------------------------------------------------
(***************************************************************************)
(* Properties.                                                             *)
(***************************************************************************)
Codes == {"invalid_executable_name", "privilege_elevation_denied", "command_denied",
          "command_not_allowed", "read_only_policy", "subcommand_not_allowed",
          "cwd_not_found", "cwd_not_directory", "cwd_outside_workspace",
          "invalid_executable_path", "executable_not_found",
          "environment_key_denied", "environment_key_not_allowed"}

TypeOK ==
    /\ platform \in Platforms
    /\ startup \in Startups(platform) \cup {Loaded}
    /\ phase \in Phases
    /\ trusted \in BoundedSeq(Directories, MaxTrusted[platform])
    /\ policy \in Policies
    /\ command \in Commands \cup {NoCommand}
    /\ stable \in BOOLEAN
    /\ candidate \in 1..(2 * MaxTrusted[platform])
    /\ inside \in [cwd : BOOLEAN, exe : BOOLEAN]
    /\ result \in Codes \cup {"none", "prepared"}
    /\ (phase = "done") = (result # "none")

\* Whatever others do to the file system between the awaits, a command is
\* prepared only for a directory that realpath put inside a workspace root, and
\* for a program that it put inside a trusted directory, unless the operator
\* named the program's path or inherits PATH.
Confined ==
    result = "prepared" =>
        /\ inside.cwd
        /\ \/ inside.exe
           \/ policy.inheritExecutablePath
           \/ RuleOf(command.name).path \notin {"none", "relative"}

\* Types, and the confinement of what prepare() returns (command-policy.ts:302).
Inv == TypeOK /\ Confined

\* What a program must be to be started under the policy.
Startable(node) ==
    /\ node.kind = "program"
    /\ node.inside \/ policy.inheritExecutablePath \/ RuleOf(command.name).path # "none"

\* What a file system that nobody changes decides, the name being accepted.
Expected ==
    LET usable == {i \in DOMAIN fs.exe : Startable(fs.exe[i])} IN
    CASE fs.cwd.kind = "missing"                   -> "cwd_not_found"
      [] fs.cwd.kind = "file"                      -> "cwd_not_directory"
      [] fs.cwd.kind = "directory" /\ ~fs.cwd.inside -> "cwd_outside_workspace"
      [] OTHER ->
           IF RuleOf(command.name).path = "relative" THEN "invalid_executable_path"
           ELSE IF usable = {} THEN "executable_not_found"
           ELSE IF \E i \in DOMAIN command.env :
                     /\ command.env[i] = "denied"
                     /\ \A j \in 1..(i - 1) : command.env[j] = "listed"
                THEN "environment_key_denied"
           ELSE IF "unlisted" \in ToSet(command.env) THEN "environment_key_not_allowed"
           ELSE "prepared"

\* While nobody changes the file system the search over directories and
\* extensions finds a program if and only if one can be started, it is the first
\* such in the configured order, and the verdict is that of the first check
\* that fails (resolveExecutable, command-policy.ts:202).
SearchIsOrdered ==
    stable /\ phase = "done" =>
        IF NameVerdict(command) # "ok" THEN result = NameVerdict(command)
        ELSE /\ result = Expected
             /\ result = "prepared" =>
                  /\ Startable(fs.exe[candidate])
                  /\ \A i \in 1..(candidate - 1) : ~Startable(fs.exe[i])

\* On Windows the case of a name makes no difference to prepare(): its verdict, the
\* rule with its restrictions and path, and the number of paths that are tried are
\* the same, though rules, denials, privileged names and extensions are looked up
\* in four places (commandRule, command-policy.ts:227).  A suffix does make a
\* difference: a rule or a denial of git says nothing about git.exe.
CaseMakesNoDifference ==
    phase = "idle" /\ platform = "win32" =>
        \A c \in Commands : \A name \in Names \ Malformed :
            c.name \notin Malformed /\ LowerCase[name] = LowerCase[c.name] =>
                LET d == [c EXCEPT !.name = name]
                IN  /\ NameVerdict(d) = NameVerdict(c)
                    /\ RuleOf(name) = RuleOf(c.name)
                    /\ Candidates(d) = Candidates(c)

\* The server comes up with the directories that the operator or the platform
\* gave, in that order and each once; one it cannot use is left out only when
\* the operator did not name it himself (loadPolicy, load.ts:195).
LoadedAsConfigured ==
    [][phase = "starting" /\ phase' = "idle" =>
         LET given == startup.directories
             First(d) == CHOOSE i \in DOMAIN given :
                            given[i] = d /\ \A j \in 1..(i - 1) : given[j] # d
         IN  /\ trusted' # <<>>
             /\ ToSet(trusted') = ToSet(given) \ (IF Explicit(startup) THEN {} ELSE {Unusable})
             /\ \A i, j \in DOMAIN trusted' : i < j => First(trusted'[i]) < First(trusted'[j])
             /\ startup.file # "valid" => policy' = DefaultPolicy
      ]_vars
=============================================================================
