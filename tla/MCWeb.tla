-------------------------------- MODULE MCWeb --------------------------------
(***************************************************************************)
(* Instances of the web UI for TLC: signing in, the editing dialogs and    *)
(* the delete dialogs.  A behaviour is of one of the three, the others     *)
(* stay as they begin.                                                     *)
(***************************************************************************)
EXTENDS WebAuth, Console, ConsoleDelete, TLC

CONSTANTS t1, t2

VARIABLE part

webVars == <<part, signed, link, tab, view, server, seen, dialog, saving, requests,
             page, stored, used, list, target, problem, attempt, call, opening>>

TabSymmetry == Permutations(Tabs)

\* The credentials of three kinds that repositories and ticket projects offer.
MCIntegrations ==
  {[id |-> "gh", kind |-> "github", isDefault |-> FALSE, at |-> 1],
   [id |-> "gl", kind |-> "gitlab", isDefault |-> TRUE, at |-> 2],
   [id |-> "ka", kind |-> "kaneo", isDefault |-> FALSE, at |-> 3],
   [id |-> "li", kind |-> "linear", isDefault |-> FALSE, at |-> 4]}

MCProjects == {[id |-> "t1", at |-> 1], [id |-> "t2", at |-> 2]}

\* One row on each page; the other fields of the repo are as they would be typed.
MCRows ==
  [repos |->
     {[id |-> "r", kind |-> "github", path |-> "q", project |-> "t2", integration |-> "gh",
       other |-> "typed"]},
   integrations |->
     {[id |-> "i", kind |-> "gitea", name |-> "n", url |-> "u", hasSecret |-> TRUE,
       isDefault |-> FALSE, secretFor |-> "u"]},
   projects |->
     {[id |-> "r", integration |-> "ka", project |-> "x", name |-> "n",
       config |-> [kind |-> "kaneo", filled |-> TRUE, space |-> "w"], mapping |-> "x",
       other |-> "row"]},
   notifications |->
     {[id |-> "r", name |-> "n", hasSecret |-> TRUE, events |-> {"create"}, other |-> "row"]}]

MCHome == [x |-> "w", y |-> "v"]

MCKinds == [repos |-> {"github", "gitlab"}, integrations |-> {"github", "gitlab", "jira"}]

MCInit ==
  /\ AuthInit
  /\ \/ part = "session" /\ ConsoleInit /\ view = "repos" /\ DeleteInit /\ page = "repos"
     \/ part = "editing" /\ ConsoleInit /\ DeleteInit /\ page = "repos"
     \/ part = "deleting" /\ ConsoleInit /\ view = "repos" /\ DeleteInit

MCNext ==
  /\ UNCHANGED part
  /\ \/ part = "session" /\ AuthNext /\ UNCHANGED consoleVars /\ UNCHANGED deleteVars
     \/ part = "editing" /\ ConsoleNext /\ UNCHANGED authVars /\ UNCHANGED deleteVars
     \/ part = "deleting" /\ DeleteNext /\ UNCHANGED authVars /\ UNCHANGED consoleVars

MCSpec == MCInit /\ [][MCNext]_webVars

=============================================================================
