---------------------------- MODULE Provisioning ----------------------------
(***************************************************************************)
(* Claims on addresses and the phases of their accounts                    *)
(* (frames/provisioning.py).  Any number of callers claim an address,      *)
(* advance it and read it, with no lease between them; the database        *)
(* decides.  A claim inserts its row and reads it back in one transaction, *)
(* its caller's or its own, which commits or is rolled back later; an      *)
(* insert on a key another open transaction has inserted waits for it.     *)
(***************************************************************************)
EXTENDS Integers

CONSTANTS
  Callers,
  Emails,
  Keys,         \* the folded addresses
  FoldedKey,    \* [Emails -> Keys]
  Invitations,
  Accounts,     \* ids at the identity provider
  NoAccount     \* the null id

ASSUME ProvisioningAssumption ==
  /\ FoldedKey \in [Emails -> Keys]
  /\ NoAccount \notin Accounts

VARIABLES
  rows,    \* the committed rows, by key
  call,    \* what each caller is doing
  told     \* the answers callers were given (history)
provisioningVars == <<rows, call, told>>

\* PHASES, in their order
Claimed == 0
AccountCreated == 1
SetupSent == 2
Complete == 3
Phases == Claimed..Complete

NoRow == [there |-> FALSE]
Row(phase, id, first) == [there |-> TRUE, phase |-> phase, id |-> id, first |-> first]
RowSet == [there : {TRUE}, phase : Phases, id : Accounts \cup {NoAccount}, first : Invitations]

Idle == [at |-> "idle"]
Inserted(key, inv) == [at |-> "inserted", key |-> key, inv |-> inv]
Conflicting(key)   == [at |-> "conflict", key |-> key]
Refused(key)       == [at |-> "refused", key |-> key]

\* A Claim, or the record another call answers with.
Told(c, key, mine, row) == [to |-> c, key |-> key, mine |-> mine, row |-> row]

Locked(key) == \E c \in Callers : call[c].at = "inserted" /\ call[c].key = key

---------------------------------------------------------------------------
(* claim: INSERT ... ON CONFLICT DO NOTHING, then the read *)

ClaimInsert(c, email, inv) ==
  LET key == FoldedKey[email] IN
  /\ call[c].at = "idle" /\ ~Locked(key)
  /\ call' = [call EXCEPT ![c] = IF rows[key].there THEN Conflicting(key) ELSE Inserted(key, inv)]
  /\ UNCHANGED <<rows, told>>

\* The transaction the claim belongs to commits, or it does not.
ClaimCommit(c) ==
  /\ call[c].at = "inserted"
  /\ LET key == call[c].key
         row == Row(Claimed, NoAccount, call[c].inv) IN
     /\ rows' = [rows EXCEPT ![key] = row]
     /\ told' = told \cup {Told(c, key, TRUE, row)}
  /\ call' = [call EXCEPT ![c] = Idle]

ClaimRollback(c) ==
  /\ call[c].at = "inserted"
  /\ call' = [call EXCEPT ![c] = Idle]
  /\ UNCHANGED <<rows, told>>

\* The loser reads the record it walked into.
ClaimRead(c) ==
  /\ call[c].at = "conflict"
  /\ told' = told \cup {Told(c, call[c].key, FALSE, rows[call[c].key])}
  /\ call' = [call EXCEPT ![c] = Idle]
  /\ UNCHANGED rows

---------------------------------------------------------------------------
(* get, advance *)

get(c, email) ==
  /\ call[c].at = "idle" /\ rows[FoldedKey[email]].there
  /\ told' = told \cup {Told(c, FoldedKey[email], FALSE, rows[FoldedKey[email]])}
  /\ UNCHANGED <<rows, call>>

\* The WHERE clause of the one UPDATE, against the row as it is.
AnyDirection(row, phase) == TRUE
Forwards(row, phase) == row.phase <= phase

AnyAccount(row, id) == TRUE
SameAccount(row, id) == row.id = NoAccount \/ id = NoAccount \/ row.id = id

Coalesce(a, b) == IF a = NoAccount THEN b ELSE a

\* collab_provisioned_accounts_id_present: otherwise the statement raises.
IdPresent(phase, id) == phase = Claimed \/ id # NoAccount

advance(c, email, phase, id) ==
  LET key == FoldedKey[email]
      row == rows[key]
      new == Row(phase, Coalesce(row.id, id), row.first) IN
  /\ call[c].at = "idle"
  /\ IF row.there /\ Forwards(row, phase) /\ SameAccount(row, id)
     THEN /\ IdPresent(phase, new.id)
          /\ rows' = [rows EXCEPT ![key] = new]
          /\ told' = told \cup {Told(c, key, FALSE, new)}
          /\ UNCHANGED call
     ELSE /\ call' = [call EXCEPT ![c] = Refused(key)]
          /\ UNCHANGED <<rows, told>>

\* Zero rows: the record is read to say which mistake it was.
Explain(c) ==
  /\ call[c].at = "refused"
  /\ told' = IF rows[call[c].key].there THEN told \cup {Told(c, call[c].key, FALSE, rows[call[c].key])} ELSE told
  /\ call' = [call EXCEPT ![c] = Idle]
  /\ UNCHANGED rows

\* unfinished: what alerting and cleanup read.
unfinished(c) ==
  /\ call[c].at = "idle"
  /\ told' = told \cup {Told(c, k, FALSE, rows[k]) : k \in {x \in Keys : rows[x].there /\ rows[x].phase # Complete}}
  /\ UNCHANGED <<rows, call>>

---------------------------------------------------------------------------
ProvisioningInit ==
  /\ rows = [k \in Keys |-> NoRow]
  /\ call = [c \in Callers |-> Idle]
  /\ told = {}

CallerStep(c) ==
  \/ \E email \in Emails, inv \in Invitations : ClaimInsert(c, email, inv)
  \/ ClaimCommit(c) \/ ClaimRollback(c) \/ ClaimRead(c) \/ Explain(c) \/ unfinished(c)
  \/ \E email \in Emails : get(c, email)
  \/ \E email \in Emails, phase \in Phases, id \in Accounts \cup {NoAccount} : advance(c, email, phase, id)

ProvisioningNext == \E c \in Callers : CallerStep(c)

ProvisioningSpec == ProvisioningInit /\ [][ProvisioningNext]_provisioningVars

---------------------------------------------------------------------------
(* Properties *)

Calls ==
  [at : {"idle"}] \cup [at : {"inserted"}, key : Keys, inv : Invitations]
    \cup [at : {"conflict", "refused"}, key : Keys]

ProvisioningTypeOK ==
  /\ rows \in [Keys -> RowSet \cup {NoRow}]
  /\ call \in [Callers -> Calls]
  /\ told \subseteq [to : Callers, key : Keys, mine : BOOLEAN, row : RowSet]

(* What a caller was told stays true, however the others interleave (claim,
   advance): the record only moves forwards, the account id it named is never
   replaced, and there is one past "claimed". *)
ToldStaysTrue ==
  \A t \in told :
    LET row == rows[t.key] IN
    /\ row.there
    /\ row.phase >= t.row.phase
    /\ row.first = t.row.first
    /\ t.row.id # NoAccount => row.id = t.row.id
    /\ t.row.phase # Claimed => t.row.id # NoAccount

(* Only one caller per address is ever told that it may create the account,
   and no open claim can still be told so once a record exists (claim). *)
OneWinner ==
  /\ \A s, t \in told : s.mine /\ t.mine /\ s.key = t.key => s = t
  /\ \A c \in Callers : call[c].at = "inserted" =>
       /\ ~rows[call[c].key].there
       /\ \A d \in Callers : call[d].at = "inserted" /\ call[d].key = call[c].key => d = c

(* The claim a refused insert conflicted with is there to be read (the case
   _claim_on marks as impossible). *)
NeverVanishes == \A c \in Callers : call[c].at = "conflict" => rows[call[c].key].there

(* The ledger of addresses as its callers may rely on it (claim, advance). *)
AddressesAreSafe == ToldStaysTrue /\ OneWinner /\ NeverVanishes
=============================================================================
