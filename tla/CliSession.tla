----------------------------- MODULE CliSession -----------------------------
(***************************************************************************)
(* The command line client's session (cli: credentials.py, hub.py, oidc.py,*)
(* config.py and the login and logout commands of main.py): one file per   *)
(* profile, read when a command starts, renewed before a request, replaced *)
(* by a login and deleted by a logout.  Nothing locks the file: commands   *)
(* overlap, and run connect stays up for as long as its client does.       *)
(*                                                                         *)
(* The realm and the hubs are external.  A sign-in through a browser that  *)
(* is still signed in returns the same realm session with other tokens.    *)
(***************************************************************************)
EXTENDS Naturals, FiniteSets

CONSTANTS
  Commands,      \* commands running at a time
  Hubs,
  ShortLived,    \* the realm's access tokens live no longer than RENEW_BEFORE_SECONDS
  Rotates,       \* the realm takes a refresh token only once
  EndsSessions,  \* the realm offers an end_session_endpoint
  MaxSessions, MaxTokens, MaxCommands   \* bounds

VARIABLES
  file,        \* credentials/<profile>.json
  command,     \* per command: [at, hub, session, previous, fresh]
  live,        \* realm sessions that have not ended
  unusable,    \* refresh tokens spent or revoked
  sessions,    \* realm sessions opened so far
  tokens,      \* refresh tokens issued so far
  sent,        \* <<to, of>>: an access token obtained for one hub sent to another (history)
  fate,        \* what became of a session or a token (history): <<"told", sid>>, a person was told it
               \* may be open; <<"unnamed", sid>>, taken for the one that replaced it; <<"stray", sid>>,
               \* the client can not end it and said nothing; <<"revoked", tok>>, said to be revoked
  overlapped,  \* two commands have run at a time (history)
  undone,      \* a login has ended the session it signed in (history)
  issued       \* commands started so far
cliVars == <<file, command, live, unusable, sessions, tokens, sent, fate, overlapped, undone, issued>>

NoCredentials == [hub |-> "none", sid |-> 0, tok |-> 0, known |-> FALSE, by |-> "none"]
Holding(stage, hub, session, previous) ==
  [at |-> stage, hub |-> hub, session |-> session, previous |-> previous, fresh |-> FALSE]
IdleCommand == Holding("idle", "none", NoCredentials, NoCredentials)
Quiet == <<live, unusable, sessions, tokens, sent, fate, overlapped, undone, issued>>

\* Credentials: of a browser sign-in, or the token login --with-token was given
Browser(hub, sid, tok, known) ==
  [hub |-> hub, sid |-> sid, tok |-> tok, known |-> known, by |-> "browser"]
Given(hub) == [hub |-> hub, sid |-> 0, tok |-> 0, known |-> FALSE, by |-> "token"]

\* A refresh token came with the sign-in: the session can be renewed and ended.
Renewable(s) == s.tok # 0
Usable(s) == Renewable(s) /\ s.sid \in live /\ s.tok \notin unusable

Set(c, record) == command' = [command EXCEPT ![c] = record]
Done(c) == Set(c, IdleCommand)
Running(c) == command[c].at # "idle"

CommandStarts ==
  /\ issued < MaxCommands
  /\ issued' = issued + 1
  /\ overlapped' = (overlapped \/ \E c \in Commands : Running(c))

---------------------------------------------------------------------------
(* Hub: the stored session is a command's only if it is of that hub. *)

AnyStored(hub) == file
StoredFor(hub) == IF file.hub = hub THEN file ELSE NoCredentials

Call(c, hub) ==
  /\ ~Running(c) /\ CommandStarts
  /\ Set(c, Holding("request", hub, StoredFor(hub), NoCredentials))
  /\ UNCHANGED <<file, live, unusable, sessions, tokens, sent, fate, undone>>

\* _renew_if_due: the session may be due whenever a command looks, a fresh one if
\* its tokens are short-lived.  One without a refresh token that has expired is an
\* AuthError.
Due(c) ==
  /\ command[c].at \in {"request", "me"}
  /\ command[c].fresh => ShortLived
  /\ Renewable(command[c].session)
  /\ Set(c, [command[c] EXCEPT !.at = IF @ = "me" THEN "renewMe" ELSE "renew"])
  /\ UNCHANGED <<file, Quiet>>

Expired(c) ==
  /\ command[c].at \in {"request", "me"}
  /\ command[c].session # NoCredentials /\ ~Renewable(command[c].session)
  /\ command[c].fresh /\ command[c].session.by = "browser" => ShortLived
  /\ Done(c)
  /\ UNCHANGED <<file, Quiet>>

Back(c) == IF command[c].at = "renewMe" THEN "me" ELSE "request"
Renewing(c) == command[c].at \in {"renew", "renewMe"}

\* oidc.refresh: new tokens, saved over whatever the file holds by now; a realm that
\* does not rotate may leave the refresh token out, and the old one stays.
Renewed(c) ==
  /\ Renewing(c) /\ Usable(command[c].session)
  /\ \E tok \in {tokens + 1} \cup (IF Rotates THEN {} ELSE {command[c].session.tok}) :
       LET s == [command[c].session EXCEPT !.tok = tok]
       IN  /\ tok <= MaxTokens
           /\ tokens' = IF tok > tokens THEN tok ELSE tokens
           /\ unusable' = unusable \cup (IF Rotates THEN {command[c].session.tok} ELSE {})
           /\ file' = s
           /\ Set(c, [command[c] EXCEPT !.at = IF @ = "renewMe" THEN "sendMe" ELSE "send", !.session = s])
  /\ UNCHANGED <<live, sessions, sent, fate, overlapped, undone, issued>>

\* A refused grant: the file is deleted, and the command ends (a login by way of _end).
GrantRefused(c) ==
  /\ Renewing(c) /\ ~Usable(command[c].session)
  /\ file' = NoCredentials
  /\ IF command[c].at = "renewMe" THEN Set(c, [command[c] EXCEPT !.at = "abandon"]) ELSE Done(c)
  /\ UNCHANGED Quiet

ForgetAnyway(c) == file' = NoCredentials
\* A realm that is down or failing: the session is kept for the next command.
KeepFile(c) == UNCHANGED file

RealmFails(c) ==
  /\ Renewing(c)
  /\ KeepFile(c)
  /\ IF command[c].at = "renewMe" THEN Set(c, [command[c] EXCEPT !.at = "abandon"]) ELSE Done(c)
  /\ UNCHANGED Quiet

\* The realm renewed it and the answer was lost: the token kept has been spent.
RenewalLost(c) ==
  /\ Renewing(c) /\ Usable(command[c].session) /\ Rotates
  /\ KeepFile(c)
  /\ unusable' = unusable \cup {command[c].session.tok}
  /\ fate' = fate \cup {<<"stray", command[c].session.sid>>}
  /\ IF command[c].at = "renewMe" THEN Set(c, [command[c] EXCEPT !.at = "abandon"]) ELSE Done(c)
  /\ UNCHANGED <<live, sessions, tokens, sent, overlapped, undone, issued>>

\* request: sent with the session's token, to the command's hub
Send(c) ==
  /\ command[c].at \in {"request", "me", "send", "sendMe"}
  /\ sent' = IF command[c].session = NoCredentials THEN sent
             ELSE sent \cup {<<command[c].hub, command[c].session.hub>>}
  /\ Set(c, [command[c] EXCEPT !.at = IF @ \in {"me", "sendMe"} THEN "meSent" ELSE "sent"])
  /\ UNCHANGED <<file, live, unusable, sessions, tokens, fate, overlapped, undone, issued>>

\* Any answer ends a command; run connect goes on with the session it holds.
CallAnswered(c) ==
  /\ command[c].at = "sent"
  /\ \/ Done(c)
     \/ Set(c, [command[c] EXCEPT !.at = "request"])
  /\ UNCHANGED <<file, Quiet>>

---------------------------------------------------------------------------
(* login *)

Login(c, hub) ==
  /\ ~Running(c) /\ CommandStarts
  /\ Set(c, Holding("signIn", hub, NoCredentials, file))
  /\ UNCHANGED <<file, live, unusable, sessions, tokens, sent, fate, undone>>

\* The hub has no sign-in, nobody came back in time, the code was refused.
SignInFails(c) ==
  /\ command[c].at = "signIn"
  /\ Done(c)
  /\ UNCHANGED <<file, Quiet>>

\* The realm signed the browser in, and the client never got the tokens.
SignInLost(c) ==
  /\ command[c].at = "signIn" /\ sessions < MaxSessions
  /\ sessions' = sessions + 1 /\ live' = live \cup {sessions + 1}
  /\ fate' = fate \cup {<<"stray", sessions + 1>>}
  /\ Done(c)
  /\ UNCHANGED <<file, unusable, tokens, sent, overlapped, undone, issued>>

\* A login's new session: the hub is asked whose it is before it is kept.
SignedIn(c, session) ==
  Set(c, [at |-> "me", hub |-> command[c].hub, session |-> session, previous |-> command[c].previous, fresh |-> TRUE])

WithToken(c) ==
  /\ command[c].at = "signIn"
  /\ SignedIn(c, Given(command[c].hub))
  /\ UNCHANGED <<file, Quiet>>

\* browser_login: a realm session of its own, or the one the browser still has,
\* with a refresh token or without
BrowserLogin(c) ==
  /\ command[c].at = "signIn"
  /\ \E known \in BOOLEAN, tok \in {0, tokens + 1}, sid \in live \cup {sessions + 1} :
       /\ tok <= MaxTokens /\ sid <= MaxSessions
       /\ tokens' = IF tok = 0 THEN tokens ELSE tok
       /\ sessions' = IF sid \in live THEN sessions ELSE sid
       /\ live' = live \cup {sid}
       /\ fate' = IF tok = 0 THEN fate \cup {<<"stray", sid>>} ELSE fate
       /\ SignedIn(c, Browser(command[c].hub, sid, tok, known))
  /\ UNCHANGED <<file, unusable, sent, overlapped, undone, issued>>

\* The hub accepts the session: it is saved, whatever the file holds by now.
Accepted(c) ==
  /\ command[c].at = "meSent"
  /\ file' = command[c].session
  /\ Set(c, [command[c] EXCEPT !.at = "saved"])
  /\ UNCHANGED Quiet

NotAccepted(c) ==
  /\ command[c].at = "meSent"
  /\ Set(c, [command[c] EXCEPT !.at = "abandon"])
  /\ UNCHANGED <<file, Quiet>>

\* _end, sign_out: done, done with the last answer lost, ended and not revoked, or
\* failed before that
EndSession(s, ok) ==
  /\ live' = IF EndsSessions /\ ok # "failed" THEN live \ {s.sid} ELSE live
  /\ unusable' = IF ok \in {"done", "late"} THEN unusable \cup {s.tok} ELSE unusable

\* end_session takes a usable token only; revocation answers 200 for any.
EndOutcomes(s) ==
  {"failed"} \cup (IF EndsSessions /\ ~Usable(s) THEN {} ELSE {"done", "late"})
             \cup (IF EndsSessions /\ Usable(s) THEN {"half"} ELSE {})

\* A browser session the hub did not accept is ended.  How that went is discarded:
\* the error raised is the hub's.
Abandon(c) ==
  /\ command[c].at = "abandon"
  /\ IF Renewable(command[c].session)
     THEN \E ok \in EndOutcomes(command[c].session) :
            /\ EndSession(command[c].session, ok)
            /\ fate' = IF ok = "failed" THEN fate \cup {<<"stray", command[c].session.sid>>} ELSE fate
     ELSE UNCHANGED <<live, unusable, fate>>
  /\ Done(c)
  /\ UNCHANGED <<file, sessions, tokens, sent, overlapped, undone, issued>>

IssuedApart(old, new) == FALSE
\* _same_realm_session: unknown is taken for the same.
SameRealmSession(old, new) == ~old.known \/ ~new.known \/ old.sid = new.sid

Replaced(c) ==
  /\ command[c].at = "saved"
  /\ LET old == command[c].previous
     IN  IF Renewable(old) /\ ~SameRealmSession(old, command[c].session)
         THEN \E ok \in EndOutcomes(old) :
                /\ EndSession(old, ok)
                /\ fate' = IF ok = "done" THEN fate ELSE fate \cup {<<"told", old.sid>>}
                /\ undone' = (undone \/ (ok # "failed" /\ old.sid = command[c].session.sid))
         ELSE /\ fate' = IF Renewable(old) THEN fate \cup {<<"unnamed", old.sid>>} ELSE fate
              /\ UNCHANGED <<live, unusable, undone>>
  /\ Done(c)
  /\ UNCHANGED <<file, sessions, tokens, sent, overlapped, issued>>

---------------------------------------------------------------------------
(* logout *)

Logout(c) ==
  /\ ~Running(c) /\ file # NoCredentials /\ CommandStarts
  /\ Set(c, Holding("leaving", "none", file, NoCredentials))
  /\ UNCHANGED <<file, live, unusable, sessions, tokens, sent, fate, undone>>

\* What is said of a session that could not be revoked, and of a given token
AlwaysWell(s, ok) == {<<"revoked", s.tok>>}
Warned(s, ok) == IF ok = "done" THEN {<<"revoked", s.tok>>} ELSE {<<"told", s.sid>>}

Leave(c) ==
  /\ command[c].at = "leaving"
  /\ IF Renewable(command[c].session)
     THEN \E ok \in EndOutcomes(command[c].session) :
            /\ EndSession(command[c].session, ok)
            /\ fate' = fate \cup Warned(command[c].session, ok)
     ELSE UNCHANGED <<live, unusable, fate>>
  /\ Set(c, [command[c] EXCEPT !.at = "left"])
  /\ UNCHANGED <<file, sessions, tokens, sent, overlapped, undone, issued>>

Delete(c) ==
  /\ command[c].at = "left"
  /\ file' = NoCredentials
  /\ Done(c)
  /\ UNCHANGED Quiet

---------------------------------------------------------------------------
(* The realm *)

\* A session ends for a reason of the realm's own: idle too long, or by hand.
SessionEnds ==
  /\ \E sid \in live : live' = live \ {sid}
  /\ UNCHANGED <<file, command, unusable, sessions, tokens, sent, fate, overlapped, undone, issued>>

CliInit ==
  /\ file = NoCredentials /\ command = [c \in Commands |-> IdleCommand]
  /\ live = {} /\ unusable = {} /\ sessions = 0 /\ tokens = 0
  /\ sent = {} /\ fate = {} /\ overlapped = FALSE /\ undone = FALSE /\ issued = 0

CliNext ==
  \/ \E c \in Commands :
       \/ \E hub \in Hubs : Call(c, hub) \/ Login(c, hub)
       \/ Due(c) \/ Expired(c) \/ Renewed(c) \/ GrantRefused(c) \/ RealmFails(c) \/ RenewalLost(c)
       \/ Send(c) \/ CallAnswered(c)
       \/ SignInFails(c) \/ SignInLost(c) \/ WithToken(c) \/ BrowserLogin(c) \/ Accepted(c) \/ NotAccepted(c)
       \/ Abandon(c) \/ Replaced(c) \/ Logout(c) \/ Leave(c) \/ Delete(c)
  \/ SessionEnds

CliSpec == CliInit /\ [][CliNext]_cliVars

---------------------------------------------------------------------------
(* Properties *)

\* The values the client's and the realm's variables take.
Credentials ==
  [hub : Hubs \cup {"none"}, sid : Nat, tok : Nat, known : BOOLEAN, by : {"none", "browser", "token"}]
CliTypeOK ==
  /\ file \in Credentials
  /\ command \in [Commands -> [at : {"idle", "request", "renew", "send", "sent", "signIn", "me", "renewMe", "sendMe",
                                    "meSent", "abandon", "saved", "leaving", "left"},
                               hub : Hubs \cup {"none"}, session : Credentials, previous : Credentials, fresh : BOOLEAN]]
  /\ sessions \in Nat /\ tokens \in Nat /\ issued \in Nat /\ live \subseteq 1..sessions /\ unusable \subseteq 0..tokens
  /\ overlapped \in BOOLEAN /\ undone \in BOOLEAN

Held(sid) ==
  \/ file.sid = sid
  \/ \E c \in Commands : Running(c) /\ sid \in {command[c].session.sid, command[c].previous.sid}

\* A session is sent to no hub but its own (Hub.__init__); a login never ends the
\* session it has just signed in (_same_realm_session); a refresh token said to be
\* revoked renews nothing (sign_out).
SessionsAreKept ==
  /\ \A s \in sent : s[1] = s[2]
  /\ ~undone
  /\ \A tok \in 1..tokens : <<"revoked", tok>> \in fate => tok \in unusable

\* As long as commands do not overlap and access tokens outlive a login, an open
\* realm session is held by the file or by a command, or a person was told that it
\* may be open, unless it could not be told from the one that replaced it, or is a
\* stray: the sign-in brought no refresh token or its answer was lost, a renewal's
\* answer was lost, or the realm did not end it when the hub had not accepted it,
\* which login says nothing of (login, logout, _renew_if_due).
SessionsAreAccounted ==
  ~overlapped /\ EndsSessions /\ ~ShortLived =>
    \A sid \in live : Held(sid) \/ {<<"told", sid>>, <<"unnamed", sid>>, <<"stray", sid>>} \cap fate # {}

\* main.py:261: "Keep the session only once the hub accepts it".  While a login is
\* under way and has not been answered, the file holds what it held before.
KeptOnceAccepted ==
  ~overlapped =>
    \A c \in Commands :
      command[c].at \in {"me", "meSent", "sendMe"} => file = command[c].previous
=============================================================================
