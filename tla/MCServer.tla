------------------------------ MODULE MCServer ------------------------------
(***************************************************************************)
(* Instances of the server's stateful parts for TLC: the accounts, the     *)
(* rows of the configuration, the settings, the rate limiter, the create   *)
(* call of a ticket provider and the notifications.  They share no state,  *)
(* so each behaviour is one of theirs, and the others stay as they begin.  *)
(***************************************************************************)
EXTENDS Accounts, Configuration, Settings, RateLimiter, TicketCalls, Notifications

CONSTANT Parts   \* the parts that move

VARIABLE part

serverVars == <<part, users, sessions, tokens, request, integrations, projects, repos, task,
                settings, patch, schedule, page, clock, hits, lastSweep, caller, admitted,
                newest, call, wire, issues, targets, selected, poll, audience, sent>>

MCUsers == {[id |-> "u1", email |-> "e1", password |-> "first"],
            [id |-> "u2", email |-> "e2", password |-> "first"]}
MCSessions == {[id |-> "s1", user |-> "u1"], [id |-> "s2", user |-> "u2"]}
MCToken(id, kind, email, newEmail) ==
  [id |-> id, kind |-> kind, email |-> email, newEmail |-> newEmail,
   used |-> FALSE, expired |-> FALSE]
MCTokens == {MCToken("t1", "invitation", "e3", None),
             MCToken("t2", "password_reset", "e1", None),
             MCToken("t3", "email_change", "e2", "e3")}

MCIntegration(id, kind, url, isDefault) ==
  [id |-> id, kind |-> kind, url |-> url, secretFor |-> url, isDefault |-> isDefault]
MCIntegrations == {MCIntegration("a", "gitlab", "u", TRUE),
                   MCIntegration("b", "gitlab", "v", FALSE),
                   MCIntegration("k", "kaneo", "u", FALSE)}
MCProjects == {[id |-> "p", integration |-> "k", templates |-> [x \in TemplateKeys |-> "first"]]}
MCRepos == {[id |-> "r", integration |-> "b", project |-> "p"]}

MCSettings == SettingsOf(5, 1, 5)

MCLimit == [login |-> 2, reset |-> 1]
MCWindow == [login |-> 3, reset |-> 2]

MCActionLists == {<<"skip">>, <<"create", "error">>, <<"supersede", "create">>}

MCInit ==
  /\ part \in Parts
  /\ AccountsInit /\ ConfigInit /\ SettingsInit /\ LimiterInit /\ CallsInit /\ NotifyInit
  /\ part # "calls" => call.system = "jira" /\ call.priority /\ call.initial

\* The parts but p stay as they are.
Only(p) ==
  /\ part = p
  /\ UNCHANGED part
  /\ p = "accounts" \/ UNCHANGED accountVars
  /\ p = "configuration" \/ UNCHANGED configVars
  /\ p = "settings" \/ UNCHANGED settingsVars
  /\ p = "limiter" \/ UNCHANGED limiterVars
  /\ p = "calls" \/ UNCHANGED callVars
  /\ p = "notifications" \/ UNCHANGED notifyVars

MCNext ==
  \/ Only("accounts") /\ AccountsNext
  \/ Only("configuration") /\ ConfigNext
  \/ Only("settings") /\ SettingsNext
  \/ Only("limiter") /\ LimiterNext
  \/ Only("calls") /\ CallsNext
  \/ Only("notifications") /\ NotifyNext

MCSpec == MCInit /\ [][MCNext]_serverVars

=============================================================================
