---------------------------- MODULE MCCommandPolicy ----------------------------
(***************************************************************************)
(* CommandPolicy with names that differ in case and in a suffix, one of    *)
(* each special kind, and the policies that tell the checks of prepare()   *)
(* apart.                                                                  *)
(***************************************************************************)
EXTENDS CommandPolicy

MCMaxTrusted == [posix |-> 2, win32 |-> 1]
MCNames      == {"git", "Git", "git.exe", "GIT.EXE", "sudo", "constructor", "a/b"}
MCLowerCase  == [name \in MCNames |-> IF name = "Git" THEN "git"
                                      ELSE IF name = "GIT.EXE" THEN "git.exe"
                                      ELSE name]

Rule(name, readOnly, restricted, path) ==
    [name |-> name, rule |-> [allowed |-> TRUE, readOnly |-> readOnly,
                              restricted |-> restricted, path |-> path]]

MCRules == {<<>>,
            <<Rule("git", TRUE, FALSE, "none"), Rule("Git", FALSE, TRUE, "none")>>,
            <<Rule("git", FALSE, TRUE, "absolute")>>,
            <<Rule("Git", TRUE, FALSE, "relative"), Rule("constructor", TRUE, FALSE, "none")>>}

MCPolicies == [mode : {"allowlist", "denylist"}, readOnly : BOOLEAN,
               denied : {{}, {"git"}}, rules : MCRules, inheritExecutablePath : BOOLEAN]
MCDefaultPolicy == [mode |-> "denylist", readOnly |-> FALSE, denied |-> {},
                    rules |-> <<>>, inheritExecutablePath |-> TRUE]

MCCommands ==
    [name : MCNames, subcommandListed : {FALSE}, env : {<<>>}]
      \cup [name : {"git"}, subcommandListed : {TRUE},
            env : {<<>>, <<"listed", "denied">>, <<"unlisted", "denied">>}]
=============================================================================
