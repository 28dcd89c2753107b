------------------------------ MODULE SyncKeys ------------------------------
(***************************************************************************)
(* The encryption keys and the gateway credential of the devices of one    *)
(* owner: setup, rotation, recovery and pairing (sync/engine.rs, with      *)
(* sync/crypto.rs, sync/pairing.rs, the set_sync_credential command and    *)
(* the gateway's pairing and device routes).                               *)
(*                                                                         *)
(* A device keeps two secrets in the key ring of the operating system and  *)
(* the confirmed key version in SQLite; the three are written one after    *)
(* the other, and every write may fail, fail to be undone, or be the last  *)
(* one before the application ends.  All operations hold run_gate, except  *)
(* set_sync_credential and the first two reads of a synchronization run.   *)
(*                                                                         *)
(* Keys are numbers in the order in which they were generated.  A keyset   *)
(* is the sequence of its keys: versions count from 1 and the active       *)
(* version is the last.                                                    *)
(***************************************************************************)
EXTENDS Integers, Sequences, SequencesExt, FiniteSets

CONSTANTS
  Dev,              \* devices
  Configured,       \* those with a credential in the gateway's configuration
  Session,          \* pairing sessions
  MAX_KEY_VERSIONS, \* keys a keyset may hold
  Running,          \* devices that synchronize
  MaxOps,           \* operations of users
  MaxFaults         \* failed writes, lost replies and application ends

\* Identifiers of devices are UUIDs.
ASSUME KeysAssumption == "" \notin Dev

VARIABLES
  keyring,    \* device -> keyset in the key ring, <<>> when there is none
  credential, \* device -> sync credential in the key ring
  confirmed,  \* device -> e2ee_key_version, 0 for NULL
  initiator,  \* session -> pairing_initiators of the device that started it
  responder,  \* session -> device that has it in pairing_responders
  op,         \* device -> operation that has yet to write its next store
  run,        \* device -> synchronization run
  sessions,   \* gateway: pairing_sessions
  registered, \* gateway: device -> credential of its row in devices
  revoked,    \* gateway: revoked devices
  material,   \* keysets the user holds recovery material of
  sealed,     \* device -> keys it has sealed changes with
  made,       \* keys and credentials generated so far
  ops, faults,
  early,      \* devices that sealed with a key they had not confirmed
  causes      \* races and failures that explain an exception

keyVars == <<keyring, credential, confirmed>>
pairVars == <<initiator, responder, sessions, registered, revoked>>
vars == <<keyVars, pairVars, op, run, material, sealed, made, ops, faults, early, causes>>

NoOp == [at |-> "idle"]
NoRun == [at |-> "idle", keys |-> <<>>]
NoState == [at |-> "none", keys |-> <<>>, token |-> 0]
NoSession == [status |-> "none", by |-> "", device |-> "", keys |-> <<>>, token |-> 0]

\* Credentials: none, the one of the gateway's configuration, or received by
\* pairing (a positive number).
None == 0
Manual == -1

\* One device may have been set up, and its recovery material saved, before.
Init ==
    /\ \E owner \in SUBSET Configured :
         /\ Cardinality(owner) <= 1
         /\ keyring = [d \in Dev |-> IF d \in owner THEN <<1>> ELSE <<>>]
         /\ credential = [d \in Dev |-> IF d \in owner THEN Manual ELSE None]
         /\ confirmed = [d \in Dev |-> IF d \in owner THEN 1 ELSE 0]
         /\ material = IF owner = {} THEN {} ELSE {<<1>>}
    /\ made = 1
    /\ initiator = [s \in Session |-> NoState] /\ responder = [s \in Session |-> ""]
    /\ op = [d \in Dev |-> NoOp] /\ run = [d \in Dev |-> NoRun]
    /\ sessions = [s \in Session |-> NoSession]
    /\ registered = [d \in Dev |-> None] /\ revoked = {}
    /\ sealed = [d \in Dev |-> {}]
    /\ ops = 0 /\ faults = 0 /\ early = {} /\ causes = {}

-----------------------------------------------------------------------------
(* Keysets.                                                                *)

\* mutant
is_compatible_upgrade_from_Length(new, old) == Len(new) > Len(old)

is_compatible_upgrade_from(new, old) == Len(new) > Len(old) /\ IsPrefix(old, new)

rotate(keys) == Append(keys, made + 1)

\* validate_e2ee_status; an unreadable status stops every operation that asks.
Ready(d) == confirmed[d] # 0 /\ Len(keyring[d]) = confirmed[d]

Unconfigured(d) == keyring[d] = <<>> /\ credential[d] = None /\ confirmed[d] = 0

\* The gateway knows the credential and has not revoked the device.
Authorized(d) ==
    /\ credential[d] # None /\ d \notin revoked
    /\ credential[d] = Manual \/ registered[d] = credential[d]

\* authorizeDevice inserts or refreshes the row of the device that asks.
Seen(d) == [registered EXCEPT ![d] = credential[d]]

-----------------------------------------------------------------------------
(* Steps.  User starts an operation under run_gate; Fail spends a fault.   *)

User(d) == op[d] = NoOp /\ ops < MaxOps /\ ops' = ops + 1
Fail == faults < MaxFaults /\ faults' = faults + 1
NoFault == UNCHANGED faults
Cause(d, new) == causes' = causes \cup (new \X {d})

\* A key ring write between a run's status and its keyset is what the run loads.
Raced(d) == IF run[d].at = "checked" THEN {"race"} ELSE {}

\* persist_new_keyset and replace_secret_verified: the write is verified by
\* reading it back; a failure is undone, unless undoing fails as well.
Written(d, new) == keyring' = [keyring EXCEPT ![d] = new] /\ NoFault
WriteFailed(d, new) == Fail /\ keyring' \in {keyring, [keyring EXCEPT ![d] = new]}

begin_e2ee_setup(d) ==
    /\ User(d)
    /\ \/ /\ keyring[d] # <<>>
          /\ material' = material \cup {keyring[d]}
          /\ UNCHANGED <<keyring, made, faults, causes>>
       \/ /\ keyring[d] = <<>>
          /\ \/ Written(d, <<made + 1>>) /\ material' = material \cup {<<made + 1>>}
             \/ WriteFailed(d, <<made + 1>>) /\ UNCHANGED material
          /\ made' = made + 1 /\ Cause(d, {"setup"})
    /\ UNCHANGED <<credential, confirmed, pairVars, op, run, sealed, early>>

begin_e2ee_rotation(d) ==
    /\ User(d)
    /\ confirmed[d] # 0 /\ keyring[d] # <<>>
    /\ \/ /\ Len(keyring[d]) > confirmed[d]
          /\ material' = material \cup {keyring[d]}
          /\ UNCHANGED <<keyring, made, faults, causes>>
       \/ /\ Len(keyring[d]) = confirmed[d] /\ Len(keyring[d]) < MAX_KEY_VERSIONS
          /\ LET new == rotate(keyring[d])
             IN \/ Written(d, new) /\ material' = material \cup {new}
                \/ WriteFailed(d, new) /\ UNCHANGED material
          /\ made' = made + 1 /\ Cause(d, Raced(d))
    /\ UNCHANGED <<credential, confirmed, pairVars, op, run, sealed, early>>

confirm_e2ee_setup(d) ==
    /\ User(d)
    /\ keyring[d] # <<>>
    /\ confirmed' = [confirmed EXCEPT ![d] = Len(keyring[d])]
    /\ UNCHANGED <<keyring, credential, pairVars, op, run, material, sealed, made, faults,
                   early, causes>>

\* First half: the recovered keyset is stored unless it is there already.
restore_e2ee(d) ==
    /\ User(d)
    /\ \E new \in material :
         \/ /\ new = keyring[d]
            /\ op' = [op EXCEPT ![d] = [at |-> "restored", old |-> keyring[d]]]
            /\ UNCHANGED <<keyring, faults, causes>>
         \/ /\ keyring[d] = <<>> \/ is_compatible_upgrade_from(new, keyring[d])
            /\ \/ /\ Written(d, new)
                  /\ op' = [op EXCEPT ![d] = [at |-> "restored", old |-> keyring[d]]]
               \/ WriteFailed(d, new) /\ UNCHANGED op
            /\ Cause(d, Raced(d) \cup {"setup"})
    /\ UNCHANGED <<credential, confirmed, pairVars, run, material, sealed, made, early>>

\* Second half: the version is confirmed, or the first half undone.
restore_confirm(d) ==
    /\ op[d].at = "restored"
    /\ op' = [op EXCEPT ![d] = NoOp]
    /\ \/ /\ confirmed' = [confirmed EXCEPT ![d] = Len(keyring[d])]
          /\ UNCHANGED <<keyring, faults>>
       \/ /\ Fail /\ UNCHANGED confirmed
          /\ keyring' \in {keyring, [keyring EXCEPT ![d] = op[d].old]}
    /\ Cause(d, Raced(d))
    /\ UNCHANGED <<credential, pairVars, run, material, sealed, made, ops, early>>

discard_e2ee_setup(d) ==
    /\ User(d)
    /\ confirmed[d] = 0 /\ keyring[d] # <<>>
    /\ Written(d, <<>>) \/ WriteFailed(d, <<>>)
    /\ UNCHANGED <<credential, confirmed, pairVars, op, run, material, sealed, made, early, causes>>

\* Does not hold run_gate.
set_sync_credential(d) ==
    /\ ops < MaxOps /\ ops' = ops + 1
    /\ \E new \in {None} \cup (IF d \in Configured THEN {Manual} ELSE {}) :
         \/ credential' = [credential EXCEPT ![d] = new] /\ NoFault
         \/ Fail /\ credential' \in {credential, [credential EXCEPT ![d] = new]}
    /\ Cause(d, {"setup"})
    /\ UNCHANGED <<keyring, confirmed, pairVars, op, run, material, sealed, made, early>>

-----------------------------------------------------------------------------
(* Pairing.                                                                *)

\* createPairingSession; when the reply is lost the device keeps no state.
start_pairing(d) ==
    /\ User(d)
    /\ Ready(d) /\ Authorized(d)
    /\ \E s \in Session :
         /\ sessions[s].status = "none"
         /\ sessions' = [sessions EXCEPT ![s].status = "open", ![s].by = d]
         /\ \/ initiator' = [initiator EXCEPT ![s].at = "exchange"] /\ NoFault
            \/ Fail /\ UNCHANGED initiator
    /\ registered' = Seen(d)
    /\ UNCHANGED <<keyVars, responder, revoked, op, run, material, sealed, made, early, causes>>

\* getPairingSession and joinPairingSession: only the first device joins.
join_pairing(d) ==
    /\ User(d)
    /\ Unconfigured(d)
    /\ \E s \in Session :
         /\ sessions[s].status = "open"
         /\ sessions' = [sessions EXCEPT ![s].status = "joined", ![s].device = d]
         /\ \/ responder' = [responder EXCEPT ![s] = d] /\ NoFault
            \/ Fail /\ UNCHANGED responder
    /\ UNCHANGED <<keyVars, initiator, registered, revoked, op, run, material, sealed, made,
                   early, causes>>

\* finalizePairingSession for the prepared transfer: the sessions and devices
\* the gateway answers with, or no answer but an error.
Finalized(s, transfer) ==
    LET row == sessions[s]
    IN IF row.status = "ready" /\ row.keys = transfer.keys /\ row.token = transfer.token
            /\ registered[row.device] = transfer.token
       THEN {[sessions |-> sessions, registered |-> Seen(row.by)]}
       ELSE IF row.status = "joined" /\ registered[row.device] = None
       THEN {[sessions |-> [sessions EXCEPT ![s].status = "ready", ![s].keys = transfer.keys,
                                            ![s].token = transfer.token],
              registered |-> [Seen(row.by) EXCEPT ![row.device] = transfer.token]]}
       ELSE {}

\* getPairingJoin and finish_initiator, once per session; prepare_transfer.
Prepared(d, s) ==
    IF initiator[s].at = "prepared" THEN {initiator[s]}
    ELSE IF initiator[s].at = "exchange" /\ sessions[s].status = "joined"
    THEN {[at |-> "prepared", keys |-> keyring[d], token |-> made + 1]}
    ELSE {}

\* The transfer is kept until the gateway has acknowledged it; an exchange that
\* fails before there is a transfer is gone.
approve_pairing(d) ==
    /\ User(d)
    /\ Authorized(d)
    /\ \E s \in Session : \E transfer \in Prepared(d, s) :
         /\ sessions[s].by = d
         /\ made' = IF initiator[s].at = "exchange" THEN made + 1 ELSE made
         /\ \/ \E answer \in Finalized(s, transfer) :
                 /\ sessions' = answer.sessions /\ registered' = answer.registered
                 /\ \/ initiator' = [initiator EXCEPT ![s] = NoState] /\ NoFault
                    \/ Fail /\ initiator' = [initiator EXCEPT ![s] = transfer]
            \/ /\ (Finalized(s, transfer) = {} /\ NoFault) \/ Fail
               /\ initiator' = [initiator EXCEPT ![s] = transfer]
               /\ registered' = Seen(d) /\ UNCHANGED sessions
            \/ /\ initiator[s].at = "exchange" /\ Fail
               /\ initiator' = [initiator EXCEPT ![s] = NoState]
               /\ registered' = Seen(d) /\ UNCHANGED sessions
    /\ UNCHANGED <<keyVars, responder, revoked, op, run, material, sealed, early, causes>>

\* getPairingPackage; the package is opened with the key of the exchange.
finish_pairing(d) ==
    /\ User(d)
    /\ \E s \in Session :
         /\ responder[s] = d /\ sessions[s].status = "ready"
         /\ Unconfigured(d)
         /\ op' = [op EXCEPT ![d] = [at |-> "install_keyset", session |-> s,
                                     keys |-> sessions[s].keys, token |-> sessions[s].token]]
    /\ UNCHANGED <<keyVars, pairVars, run, material, sealed, made, faults, early, causes>>

Next_(d, at) == op' = [op EXCEPT ![d].at = at]
Undone(f, d, none) == {f, [f EXCEPT ![d] = none]}

\* install_paired_secrets: keyset, credential, version; a failure undoes what
\* was written, and the package can be installed again.
install_keyset(d) ==
    /\ op[d].at = "install_keyset"
    /\ \/ Written(d, op[d].keys) /\ Next_(d, "install_credential") /\ UNCHANGED causes
       \/ /\ WriteFailed(d, op[d].keys) /\ op' = [op EXCEPT ![d] = NoOp]
          /\ Cause(d, IF keyring' = keyring THEN {} ELSE {"undo"})
    /\ UNCHANGED <<credential, confirmed, pairVars, run, material, sealed, made, ops, early>>

install_credential(d) ==
    /\ op[d].at = "install_credential"
    /\ \/ /\ credential' = [credential EXCEPT ![d] = op[d].token]
          /\ Next_(d, "install_version")
          /\ UNCHANGED <<keyring, faults, causes>>
       \/ /\ Fail
          /\ credential' \in {credential, [credential EXCEPT ![d] = op[d].token]}
          /\ keyring' \in Undone(keyring, d, <<>>)
          /\ op' = [op EXCEPT ![d] = NoOp]
          /\ Cause(d, IF keyring'[d] = <<>> /\ credential' = credential THEN {} ELSE {"undo"})
    /\ UNCHANGED <<confirmed, pairVars, run, material, sealed, made, ops, early>>

\* consumePairingSession is asked once the secrets are installed; its failure
\* is only logged.
install_version(d) ==
    /\ op[d].at = "install_version"
    /\ op' = [op EXCEPT ![d] = NoOp]
    /\ \/ /\ confirmed' = [confirmed EXCEPT ![d] = Len(op[d].keys)]
          /\ responder' = [responder EXCEPT ![op[d].session] = ""]
          /\ \/ /\ Authorized(d) /\ sessions[op[d].session].status = "ready"
                /\ sessions' = [sessions EXCEPT ![op[d].session].status = "consumed"] /\ NoFault
             \/ UNCHANGED sessions /\ (Fail \/ (~Authorized(d) /\ NoFault))
          /\ UNCHANGED <<keyring, credential, causes>>
       \/ /\ Fail /\ UNCHANGED <<confirmed, sessions, responder>>
          /\ credential' \in Undone(credential, d, None)
          /\ keyring' \in Undone(keyring, d, <<>>)
          /\ Cause(d, IF keyring'[d] = <<>> /\ credential'[d] = None THEN {} ELSE {"undo"})
    /\ UNCHANGED <<initiator, registered, revoked, run, material, sealed, made, ops, early>>

revoke_device(d) ==
    /\ User(d)
    /\ Authorized(d)
    /\ \E e \in Dev \ {d} :
         /\ Seen(d)[e] # None /\ e \notin revoked
         /\ revoked' = revoked \cup {e}
         /\ sessions' = [s \in Session |->
              IF e \in {sessions[s].by, sessions[s].device}
              THEN [NoSession EXCEPT !.status = "gone"] ELSE sessions[s]]
    /\ registered' = Seen(d)
    /\ UNCHANGED <<keyVars, initiator, responder, op, run, material, sealed, made, faults,
                   early, causes>>

-----------------------------------------------------------------------------
(* Synchronization runs, time and ends of the application.                 *)

\* run_once and sync_now: status, then the keyset, neither under run_gate.
run_status(d) ==
    /\ d \in Running /\ run[d].at = "idle" /\ Ready(d) /\ credential[d] # None
    /\ run' = [run EXCEPT ![d].at = "checked"]
    /\ UNCHANGED <<keyVars, pairVars, op, material, sealed, made, ops, faults, early, causes>>

load_keyset(d) ==
    /\ run[d].at = "checked"
    /\ run' = [run EXCEPT ![d] = [at |-> "loaded", keys |-> keyring[d]]]
    /\ UNCHANGED <<keyVars, pairVars, op, material, sealed, made, ops, faults, early, causes>>

\* run_with_optional_keyset: run_gate, then prepare_encrypted_batch seals the
\* waiting changes, if any, with the active key of the keyset in hand.
seal(d) ==
    /\ run[d].at = "loaded"
    /\ run' = [run EXCEPT ![d] = NoRun]
    /\ \/ /\ op[d] = NoOp /\ run[d].keys # <<>>
          /\ sealed' = [sealed EXCEPT ![d] = @ \cup {Last(run[d].keys)}]
          /\ early' = IF Len(run[d].keys) > confirmed[d] THEN early \cup {d} ELSE early
       \/ UNCHANGED <<sealed, early>>
    /\ UNCHANGED <<keyVars, pairVars, op, material, made, ops, faults, causes>>

\* cleanup_expired_pairings and the gateway's expires_at
expire(s) ==
    /\ sessions[s].status \in {"open", "joined", "ready"}
    /\ ops < MaxOps /\ ops' = ops + 1
    /\ \A d \in Dev : op[d].at \in {"idle", "restored"}
    /\ sessions' = [sessions EXCEPT ![s].status = "gone"]
    /\ initiator' = [initiator EXCEPT ![s] = NoState]
    /\ responder' = [responder EXCEPT ![s] = ""]
    /\ UNCHANGED <<keyVars, registered, revoked, op, run, material, sealed, made, faults,
                   early, causes>>

\* The application ends: pairings and operations in memory are lost.
restart(d) ==
    /\ Fail
    /\ op' = [op EXCEPT ![d] = NoOp] /\ run' = [run EXCEPT ![d] = NoRun]
    /\ initiator' = [s \in Session |-> IF sessions[s].by = d THEN NoState ELSE initiator[s]]
    /\ responder' = [s \in Session |-> IF responder[s] = d THEN "" ELSE responder[s]]
    /\ UNCHANGED <<keyVars, sessions, registered, revoked, material, sealed, made, ops, early, causes>>

Next ==
    \/ \E d \in Dev :
         \/ begin_e2ee_setup(d) \/ begin_e2ee_rotation(d) \/ confirm_e2ee_setup(d)
         \/ restore_e2ee(d) \/ restore_confirm(d) \/ discard_e2ee_setup(d)
         \/ set_sync_credential(d) \/ start_pairing(d) \/ join_pairing(d)
         \/ approve_pairing(d) \/ finish_pairing(d) \/ install_keyset(d)
         \/ install_credential(d) \/ install_version(d) \/ revoke_device(d)
         \/ run_status(d) \/ load_keyset(d) \/ seal(d) \/ restart(d)
    \/ \E s \in Session : expire(s)

Spec == Init /\ [][Next]_vars

-----------------------------------------------------------------------------
Keysets == Seq(Nat)
Causes == {"race", "setup", "undo"} \X Dev
InstallSteps == {"install_keyset", "install_credential", "install_version"}
Ops ==
    {NoOp} \cup [at : {"restored"}, old : Keysets]
           \cup [at : InstallSteps, session : Session, keys : Keysets, token : Nat]

Transfers == [at : {"none", "exchange", "prepared"}, keys : Keysets, token : Nat]
Runs == [at : {"idle", "checked", "loaded"}, keys : Keysets]
Rows == [status : {"none", "open", "joined", "ready", "consumed", "gone"},
         by : Dev \cup {""}, device : Dev \cup {""}, keys : Keysets, token : Nat]

\* The state has its type.
TypeOK ==
    /\ keyring \in [Dev -> Keysets] /\ confirmed \in [Dev -> Nat]
    /\ credential \in [Dev -> Int] /\ registered \in [Dev -> Int]
    /\ initiator \in [Session -> Transfers] /\ responder \in [Session -> Dev \cup {""}]
    /\ sessions \in [Session -> Rows]
    /\ op \in [Dev -> Ops] /\ run \in [Dev -> Runs]
    /\ sealed \in [Dev -> SUBSET Nat] /\ material \subseteq Keysets /\ made \in Nat
    /\ early \subseteq Dev /\ causes \subseteq Causes

\* The confirmed version is always one of the key ring's keyset, whichever
\* write failed and wherever the application ended: otherwise the status of
\* the device can no longer be read (validate_e2ee_status).
ConfirmedHeld == \A d \in Dev : confirmed[d] <= Len(keyring[d])

\* A device keeps every key it has sealed changes with, through rotation,
\* recovery, their failures and restarts: what is in its outbox and on the
\* gateway stays readable.  Only a run that loads a keyset which is then taken
\* back can seal with a key that is gone.
KeysKept ==
    \A d \in Dev : <<"race", d>> \in causes \/ sealed[d] \subseteq {keyring[d][i] : i \in DOMAIN keyring[d]}

\* Changes are sealed with confirmed keys only, so that the user has saved
\* recovery material first; the exception is a rotation or recovery between a
\* run's look at the status and its look at the keyset.
SealedConfirmed == \A d \in early : <<"race", d>> \in causes

\* A credential received by pairing is the one the gateway knows the device
\* by, unless the device has used another one since.
PairedIsKnown ==
    \A d \in Dev : (credential[d] > None /\ registered[d] # Manual) => registered[d] = credential[d]

\* An approval whose answer was lost can be repeated: the gateway holds
\* exactly the transfer the device still has in hand.
ApprovalRepeatable ==
    \A s \in Session : (sessions[s].status = "ready" /\ initiator[s].at # "none") =>
        /\ initiator[s].at = "prepared"
        /\ initiator[s].keys = sessions[s].keys /\ initiator[s].token = sessions[s].token

\* A failed installation leaves nothing behind, so that the device can finish
\* the pairing it still has in hand, unless undoing failed as well or the user
\* configured the device in the meantime.
PairingRepeatable ==
    \A s \in Session : \A d \in Dev :
        (responder[s] = d /\ op[d] = NoOp /\ confirmed[d] = 0 /\ {<<"undo", d>>, <<"setup", d>>} \cap causes = {})
            => Unconfigured(d)

KeysSafe ==
    /\ TypeOK /\ ConfirmedHeld /\ KeysKept /\ SealedConfirmed
    /\ PairedIsKnown /\ ApprovalRepeatable /\ PairingRepeatable

\* E2EE.md: while a rotation is pending nothing is sealed with the new key.
NeverEarly == early = {}
=============================================================================
