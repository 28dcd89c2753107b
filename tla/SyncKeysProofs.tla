---------------------------- MODULE SyncKeysProofs ----------------------------
(***************************************************************************)
(* Proofs about SyncKeys.                                                  *)
(***************************************************************************)
EXTENDS SyncKeys, SequenceTheorems, TLAPS

-----------------------------------------------------------------------------
(* Types.                                                                  *)

\* A record of the outstanding operation is one of three kinds.
LEMMA OpKinds ==
  ASSUME NEW o \in Ops
  PROVE  /\ o.at \in {"idle", "restored"} \cup InstallSteps
         /\ o.at = "idle" => o = NoOp
         /\ o.at = "restored" => o \in [at : {"restored"}, old : Keysets]
         /\ o.at \in InstallSteps =>
              o \in [at : InstallSteps, session : Session, keys : Keysets, token : Nat]
BY DEF Ops, NoOp, InstallSteps

\* The operations a step leaves outstanding.
LEMMA NewOps ==
  /\ NoOp \in Ops
  /\ \A k \in Keysets : [at |-> "restored", old |-> k] \in Ops
  /\ \A o \in Ops : \A step \in InstallSteps :
        o.at \in InstallSteps => [o EXCEPT !.at = step] \in Ops
  /\ \A s \in Session : \A k \in Keysets : \A n \in Nat :
        [at |-> "install_keyset", session |-> s, keys |-> k, token |-> n] \in Ops
<1>1. \A o \in Ops : \A step \in InstallSteps :
        o.at \in InstallSteps => [o EXCEPT !.at = step] \in Ops
  <2>1. SUFFICES ASSUME NEW o \in Ops, NEW step \in InstallSteps, o.at \in InstallSteps
                 PROVE  [o EXCEPT !.at = step] \in [at : InstallSteps, session : Session, keys : Keysets, token : Nat]
    BY DEF Ops
  <2>2. QED BY <2>1, OpKinds
<1>2. QED BY <1>1 DEF Ops, InstallSteps

\* What the outstanding operation of a device holds.
LEMMA OpFields ==
  ASSUME op \in [Dev -> Ops], NEW d \in Dev
  PROVE  /\ op[d] \in Ops
         /\ op[d].at \in {"idle", "restored"} \cup InstallSteps
         /\ op[d].at = "idle" <=> op[d] = NoOp
         /\ op[d].at = "restored" => op[d].old \in Keysets
         /\ op[d].at \in InstallSteps =>
              op[d].session \in Session /\ op[d].keys \in Keysets /\ op[d].token \in Nat
<1>1. op[d] \in Ops
  OBVIOUS
<1>2. QED BY <1>1, OpKinds DEF NoOp

\* Keysets are finite sequences of keys.
LEMMA KeysetFacts ==
  /\ <<>> \in Keysets /\ Len(<<>>) = 0
  /\ \A n \in Nat : <<n>> \in Keysets /\ Len(<<n>>) = 1 /\ <<n>> # <<>>
  /\ \A k \in Keysets : /\ Len(k) \in Nat /\ (Len(k) = 0 <=> k = <<>>)
                        /\ \A i \in 1 .. Len(k) : k[i] \in Nat
BY DEF Keysets

\* The rows of pairing sessions that the gateway writes.
LEMMA RowUpdates ==
  /\ \A r \in Rows : /\ r.by \in Dev \cup {""} /\ r.device \in Dev \cup {""}
                     /\ r.keys \in Keysets /\ r.token \in Nat
  /\ NoSession \in Rows /\ [NoSession EXCEPT !.status = "gone"] \in Rows
  /\ \A r \in Rows : /\ [r EXCEPT !.status = "gone"] \in Rows
                     /\ [r EXCEPT !.status = "consumed"] \in Rows
  /\ \A r \in Rows : \A d \in Dev : /\ [r EXCEPT !.status = "open", !.by = d] \in Rows
                                    /\ [r EXCEPT !.status = "joined", !.device = d] \in Rows
  /\ \A r \in Rows : \A k \in Keysets : \A n \in Nat :
        [r EXCEPT !.status = "ready", !.keys = k, !.token = n] \in Rows
<1>1. <<>> \in Keysets
  BY KeysetFacts
<1>2. QED BY <1>1 DEF Rows, NoSession

\* What a device holds of a pairing it started.
LEMMA TransferUpdates ==
  /\ \A t \in Transfers : /\ t.keys \in Keysets /\ t.token \in Nat
                          /\ [t EXCEPT !.at = "exchange"] \in Transfers
  /\ NoState \in Transfers
  /\ \A k \in Keysets : \A n \in Nat : [at |-> "prepared", keys |-> k, token |-> n] \in Transfers
<1>1. <<>> \in Keysets
  BY KeysetFacts
<1>2. QED BY <1>1 DEF Transfers, NoState

\* The steps of a synchronization run.
LEMMA RunUpdates ==
  /\ \A r \in Runs : /\ r.keys \in Keysets /\ [r EXCEPT !.at = "checked"] \in Runs
                     /\ r.keys # <<>> => r.keys[Len(r.keys)] \in Nat
  /\ NoRun \in Runs
  /\ \A k \in Keysets : [at |-> "loaded", keys |-> k] \in Runs
<1>1. <<>> \in Keysets
  BY KeysetFacts
<1>2. \A k \in Keysets : k # <<>> => k[Len(k)] \in Nat
  BY DEF Keysets
<1>3. QED BY <1>1, <1>2 DEF Runs, NoRun

\* A keyset with one more key is a keyset.
LEMMA Rotated ==
  ASSUME NEW keys \in Keysets, made \in Nat
  PROVE  /\ rotate(keys) \in Keysets /\ Len(rotate(keys)) = Len(keys) + 1
         /\ \A i \in 1 .. Len(keys) : rotate(keys)[i] = keys[i]
BY DEF rotate, Keysets

\* A keyset that recovery accepts holds the keys it replaces.
LEMMA Upgraded ==
  ASSUME NEW new \in Keysets, NEW old \in Keysets, is_compatible_upgrade_from(new, old)
  PROVE  /\ Len(new) > Len(old)
         /\ \A i \in 1 .. Len(old) : old[i] = new[i]
<1>1. Len(new) > Len(old) /\ SubSeq(old, 1, Len(old)) = SubSeq(new, 1, Len(old))
  BY DEF is_compatible_upgrade_from, IsPrefix
<1>2. ASSUME NEW i \in 1 .. Len(old)
      PROVE  old[i] = new[i]
  <2>1. SubSeq(old, 1, Len(old))[i] = old[i] /\ SubSeq(new, 1, Len(old))[i] = new[i]
    BY <1>1 DEF Keysets
  <2>2. QED BY <2>1, <1>1
<1>3. QED BY <1>1, <1>2

-----------------------------------------------------------------------------
\* The state the program starts in has its type.
LEMMA InitTypes == Init => TypeOK
<1>1. SUFFICES ASSUME Init PROVE TypeOK
  OBVIOUS
<1>2. PICK owner \in SUBSET Configured :
        /\ keyring = [d \in Dev |-> IF d \in owner THEN <<1>> ELSE <<>>]
        /\ credential = [d \in Dev |-> IF d \in owner THEN Manual ELSE None]
        /\ confirmed = [d \in Dev |-> IF d \in owner THEN 1 ELSE 0]
        /\ material = IF owner = {} THEN {} ELSE {<<1>>}
  BY <1>1 DEF Init
<1>3. <<>> \in Keysets /\ <<1>> \in Keysets
  BY DEF Keysets
<1>4. keyring \in [Dev -> Keysets] /\ confirmed \in [Dev -> Nat] /\ credential \in [Dev -> Int]
  BY <1>2, <1>3 DEF Manual, None
<1>5. material \subseteq Keysets
  BY <1>2, <1>3
<1>6. initiator \in [Session -> Transfers]
  BY <1>1, <1>3 DEF Init, NoState, Transfers
<1>7. sessions \in [Session -> Rows]
  BY <1>1, <1>3 DEF Init, NoSession, Rows
<1>8. op \in [Dev -> Ops] /\ run \in [Dev -> Runs]
  BY <1>1, <1>3, NewOps DEF Init, NoRun, Runs
<1>9. made \in Nat /\ responder \in [Session -> Dev \cup {""}]
  BY <1>1 DEF Init
<1>10. registered \in [Dev -> Int] /\ sealed \in [Dev -> SUBSET Nat]
  <2>1. registered = [d \in Dev |-> 0] /\ sealed = [d \in Dev |-> {}]
    BY <1>1 DEF Init, None
  <2>2. QED BY <2>1
<1>11. early \subseteq Dev /\ causes \subseteq Causes
  BY <1>1 DEF Init
<1>12. QED BY <1>4, <1>5, <1>6, <1>7, <1>8, <1>9, <1>10, <1>11 DEF TypeOK

\* begin_e2ee_setup keeps the types.
LEMMA Types_begin_e2ee_setup ==
  ASSUME TypeOK, NEW d \in Dev, begin_e2ee_setup(d)
  PROVE  TypeOK'
<1>1. keyring' \in [Dev -> Keysets]
  <2>1. /\ keyring \in [Dev -> Keysets]
        /\ made \in Nat
    BY DEF TypeOK
  <2>2. QED BY <2>1, KeysetFacts DEF begin_e2ee_setup, Written, WriteFailed
<1>2. made' \in Nat
  <2>1. made \in Nat
    BY DEF TypeOK
  <2>2. QED BY <2>1 DEF begin_e2ee_setup
<1>3. material' \subseteq Keysets
  <2>1. /\ material \subseteq Keysets
        /\ keyring \in [Dev -> Keysets]
        /\ made \in Nat
    BY DEF TypeOK
  <2>2. QED BY <2>1, KeysetFacts DEF begin_e2ee_setup
<1>4. causes' \subseteq Causes
  <2>1. causes \subseteq Causes
    BY DEF TypeOK
  <2>2. QED BY <2>1 DEF begin_e2ee_setup, Cause, Raced, Causes
<1>5. UNCHANGED <<confirmed, credential, registered, initiator, responder, sessions, op, run, sealed, early>>
  BY DEF begin_e2ee_setup, keyVars, pairVars
<1>6. QED BY <1>1, <1>2, <1>3, <1>4, <1>5 DEF TypeOK

\* begin_e2ee_rotation keeps the types.
LEMMA Types_begin_e2ee_rotation ==
  ASSUME TypeOK, NEW d \in Dev, begin_e2ee_rotation(d)
  PROVE  TypeOK'
<1>1. keyring' \in [Dev -> Keysets]
  <2>1. /\ keyring \in [Dev -> Keysets]
        /\ made \in Nat
    BY DEF TypeOK
  <2>2. QED BY <2>1, Rotated DEF begin_e2ee_rotation, Written, WriteFailed
<1>2. made' \in Nat
  <2>1. made \in Nat
    BY DEF TypeOK
  <2>2. QED BY <2>1 DEF begin_e2ee_rotation
<1>3. material' \subseteq Keysets
  <2>1. /\ material \subseteq Keysets
        /\ keyring \in [Dev -> Keysets]
        /\ made \in Nat
    BY DEF TypeOK
  <2>2. QED BY <2>1, Rotated DEF begin_e2ee_rotation
<1>4. causes' \subseteq Causes
  <2>1. causes \subseteq Causes
    BY DEF TypeOK
  <2>2. QED BY <2>1 DEF begin_e2ee_rotation, Cause, Raced, Causes
<1>5. UNCHANGED <<confirmed, credential, registered, initiator, responder, sessions, op, run, sealed, early>>
  BY DEF begin_e2ee_rotation, keyVars, pairVars
<1>6. QED BY <1>1, <1>2, <1>3, <1>4, <1>5 DEF TypeOK

\* confirm_e2ee_setup keeps the types.
LEMMA Types_confirm_e2ee_setup ==
  ASSUME TypeOK, NEW d \in Dev, confirm_e2ee_setup(d)
  PROVE  TypeOK'
<1>1. confirmed' \in [Dev -> Nat]
  <2>1. /\ confirmed \in [Dev -> Nat]
        /\ keyring \in [Dev -> Keysets]
    BY DEF TypeOK
  <2>2. QED BY <2>1, KeysetFacts DEF confirm_e2ee_setup
<1>2. UNCHANGED <<keyring, credential, registered, initiator, responder, sessions, op, run, sealed, material, made, early, causes>>
  BY DEF confirm_e2ee_setup, keyVars, pairVars
<1>3. QED BY <1>1, <1>2 DEF TypeOK

\* restore_e2ee keeps the types.
LEMMA Types_restore_e2ee ==
  ASSUME TypeOK, NEW d \in Dev, restore_e2ee(d)
  PROVE  TypeOK'
<1>1. keyring' \in [Dev -> Keysets]
  <2>1. /\ keyring \in [Dev -> Keysets]
        /\ material \subseteq Keysets
    BY DEF TypeOK
  <2>2. QED BY <2>1 DEF restore_e2ee, Written, WriteFailed
<1>2. op' \in [Dev -> Ops]
  <2>1. /\ op \in [Dev -> Ops]
        /\ keyring \in [Dev -> Keysets]
    BY DEF TypeOK
  <2>2. QED BY <2>1, NewOps DEF restore_e2ee
<1>3. causes' \subseteq Causes
  <2>1. causes \subseteq Causes
    BY DEF TypeOK
  <2>2. QED BY <2>1 DEF restore_e2ee, Cause, Raced, Causes
<1>4. UNCHANGED <<confirmed, credential, registered, initiator, responder, sessions, run, sealed, material, made, early>>
  BY DEF restore_e2ee, keyVars, pairVars
<1>5. QED BY <1>1, <1>2, <1>3, <1>4 DEF TypeOK

\* restore_confirm keeps the types.
LEMMA Types_restore_confirm ==
  ASSUME TypeOK, NEW d \in Dev, restore_confirm(d)
  PROVE  TypeOK'
<1>1. op' \in [Dev -> Ops]
  <2>1. op \in [Dev -> Ops]
    BY DEF TypeOK
  <2>2. QED BY <2>1, NewOps DEF restore_confirm
<1>2. confirmed' \in [Dev -> Nat]
  <2>1. /\ confirmed \in [Dev -> Nat]
        /\ keyring \in [Dev -> Keysets]
    BY DEF TypeOK
  <2>2. QED BY <2>1, KeysetFacts DEF restore_confirm
<1>3. keyring' \in [Dev -> Keysets]
  <2>1. /\ keyring \in [Dev -> Keysets]
        /\ op \in [Dev -> Ops]
    BY DEF TypeOK
  <2>2. QED BY <2>1, OpFields DEF restore_confirm
<1>4. causes' \subseteq Causes
  <2>1. causes \subseteq Causes
    BY DEF TypeOK
  <2>2. QED BY <2>1 DEF restore_confirm, Cause, Raced, Causes
<1>5. UNCHANGED <<credential, registered, initiator, responder, sessions, run, sealed, material, made, early>>
  BY DEF restore_confirm, keyVars, pairVars
<1>6. QED BY <1>1, <1>2, <1>3, <1>4, <1>5 DEF TypeOK

\* discard_e2ee_setup keeps the types.
LEMMA Types_discard_e2ee_setup ==
  ASSUME TypeOK, NEW d \in Dev, discard_e2ee_setup(d)
  PROVE  TypeOK'
<1>1. keyring' \in [Dev -> Keysets]
  <2>1. keyring \in [Dev -> Keysets]
    BY DEF TypeOK
  <2>2. QED BY <2>1, KeysetFacts DEF discard_e2ee_setup, Written, WriteFailed
<1>2. UNCHANGED <<confirmed, credential, registered, initiator, responder, sessions, op, run, sealed, material, made, early, causes>>
  BY DEF discard_e2ee_setup, keyVars, pairVars
<1>3. QED BY <1>1, <1>2 DEF TypeOK

\* set_sync_credential keeps the types.
LEMMA Types_set_sync_credential ==
  ASSUME TypeOK, NEW d \in Dev, set_sync_credential(d)
  PROVE  TypeOK'
<1>1. credential' \in [Dev -> Int]
  <2>1. credential \in [Dev -> Int]
    BY DEF TypeOK
  <2>2. QED BY <2>1 DEF set_sync_credential, None, Manual
<1>2. causes' \subseteq Causes
  <2>1. causes \subseteq Causes
    BY DEF TypeOK
  <2>2. QED BY <2>1 DEF set_sync_credential, Cause, Raced, Causes
<1>3. UNCHANGED <<keyring, confirmed, registered, initiator, responder, sessions, op, run, sealed, material, made, early>>
  BY DEF set_sync_credential, keyVars, pairVars
<1>4. QED BY <1>1, <1>2, <1>3 DEF TypeOK

\* start_pairing keeps the types.
LEMMA Types_start_pairing ==
  ASSUME TypeOK, NEW d \in Dev, start_pairing(d)
  PROVE  TypeOK'
<1>1. sessions' \in [Session -> Rows]
  <2>1. PICK s \in Session :
          sessions' = [sessions EXCEPT ![s].status = "open", ![s].by = d]
    BY DEF start_pairing
  <2>2. sessions \in [Session -> Rows]
    BY DEF TypeOK
  <2>3. sessions' = [sessions EXCEPT ![s] = [sessions[s] EXCEPT !.status = "open", !.by = d]]
    BY <2>1, <2>2 DEF Rows
  <2>4. [sessions[s] EXCEPT !.status = "open", !.by = d] \in Rows
    BY <2>2, RowUpdates
  <2>5. QED BY <2>2, <2>3, <2>4
<1>2. initiator' \in [Session -> Transfers]
  <2>1. initiator \in [Session -> Transfers]
    BY DEF TypeOK
  <2>2. QED BY <2>1, TransferUpdates DEF start_pairing
<1>3. registered' \in [Dev -> Int]
  <2>1. /\ registered \in [Dev -> Int]
        /\ credential \in [Dev -> Int]
    BY DEF TypeOK
  <2>2. QED BY <2>1 DEF start_pairing, Seen
<1>4. UNCHANGED <<keyring, confirmed, credential, responder, op, run, sealed, material, made, early, causes>>
  BY DEF start_pairing, keyVars, pairVars
<1>5. QED BY <1>1, <1>2, <1>3, <1>4 DEF TypeOK

\* join_pairing keeps the types.
LEMMA Types_join_pairing ==
  ASSUME TypeOK, NEW d \in Dev, join_pairing(d)
  PROVE  TypeOK'
<1>1. sessions' \in [Session -> Rows]
  <2>1. PICK s \in Session :
          sessions' = [sessions EXCEPT ![s].status = "joined", ![s].device = d]
    BY DEF join_pairing
  <2>2. sessions \in [Session -> Rows]
    BY DEF TypeOK
  <2>3. sessions' = [sessions EXCEPT ![s] = [sessions[s] EXCEPT !.status = "joined", !.device = d]]
    BY <2>1, <2>2 DEF Rows
  <2>4. [sessions[s] EXCEPT !.status = "joined", !.device = d] \in Rows
    BY <2>2, RowUpdates
  <2>5. QED BY <2>2, <2>3, <2>4
<1>2. responder' \in [Session -> Dev \cup {""}]
  <2>1. responder \in [Session -> Dev \cup {""}]
    BY DEF TypeOK
  <2>2. QED BY <2>1 DEF join_pairing
<1>3. UNCHANGED <<keyring, confirmed, credential, registered, initiator, op, run, sealed, material, made, early, causes>>
  BY DEF join_pairing, keyVars, pairVars
<1>4. QED BY <1>1, <1>2, <1>3 DEF TypeOK

\* finish_pairing keeps the types.
LEMMA Types_finish_pairing ==
  ASSUME TypeOK, NEW d \in Dev, finish_pairing(d)
  PROVE  TypeOK'
<1>1. op' \in [Dev -> Ops]
  <2>1. PICK s \in Session :
          op' = [op EXCEPT ![d] = [at |-> "install_keyset", session |-> s,
                                   keys |-> sessions[s].keys, token |-> sessions[s].token]]
    BY DEF finish_pairing
  <2>2. op \in [Dev -> Ops] /\ sessions[s] \in Rows
    BY DEF TypeOK
  <2>3. sessions[s].keys \in Keysets /\ sessions[s].token \in Nat
    BY <2>2, RowUpdates
  <2>4. [at |-> "install_keyset", session |-> s, keys |-> sessions[s].keys, token |-> sessions[s].token] \in Ops
    BY <2>3, NewOps
  <2>5. QED BY <2>1, <2>2, <2>4
<1>2. UNCHANGED <<keyring, confirmed, credential, registered, initiator, responder, sessions, run, sealed, material, made, early, causes>>
  BY DEF finish_pairing, keyVars, pairVars
<1>3. QED BY <1>1, <1>2 DEF TypeOK

\* install_keyset keeps the types.
LEMMA Types_install_keyset ==
  ASSUME TypeOK, NEW d \in Dev, install_keyset(d)
  PROVE  TypeOK'
<1>1. keyring' \in [Dev -> Keysets]
  <2>1. /\ keyring \in [Dev -> Keysets]
        /\ op \in [Dev -> Ops]
    BY DEF TypeOK
  <2>2. QED BY <2>1, OpFields DEF install_keyset, Written, WriteFailed, InstallSteps
<1>2. op' \in [Dev -> Ops]
  <2>1. op \in [Dev -> Ops]
    BY DEF TypeOK
  <2>2. QED BY <2>1, NewOps, OpFields DEF install_keyset, Next_, InstallSteps
<1>3. causes' \subseteq Causes
  <2>1. causes \subseteq Causes
    BY DEF TypeOK
  <2>2. QED BY <2>1 DEF install_keyset, Cause, Raced, Causes
<1>4. UNCHANGED <<confirmed, credential, registered, initiator, responder, sessions, run, sealed, material, made, early>>
  BY DEF install_keyset, keyVars, pairVars
<1>5. QED BY <1>1, <1>2, <1>3, <1>4 DEF TypeOK

\* install_credential keeps the types.
LEMMA Types_install_credential ==
  ASSUME TypeOK, NEW d \in Dev, install_credential(d)
  PROVE  TypeOK'
<1>1. credential' \in [Dev -> Int]
  <2>1. /\ credential \in [Dev -> Int]
        /\ op \in [Dev -> Ops]
    BY DEF TypeOK
  <2>2. QED BY <2>1, OpFields DEF install_credential, InstallSteps
<1>2. keyring' \in [Dev -> Keysets]
  <2>1. keyring \in [Dev -> Keysets]
    BY DEF TypeOK
  <2>2. QED BY <2>1, KeysetFacts DEF install_credential, Undone
<1>3. op' \in [Dev -> Ops]
  <2>1. op \in [Dev -> Ops] /\ op[d].at \in InstallSteps
    BY DEF TypeOK, install_credential, InstallSteps
  <2>2. [op[d] EXCEPT !.at = "install_version"] \in Ops
    BY <2>1, NewOps DEF InstallSteps
  <2>3. NoOp \in Ops
    BY NewOps
  <2>4. CASE op' = [op EXCEPT ![d] = NoOp]
    BY <2>1, <2>3, <2>4
  <2>5. CASE Next_(d, "install_version")
    BY <2>1, <2>2, <2>5 DEF Next_
  <2>6. QED BY <2>4, <2>5 DEF install_credential
<1>4. causes' \subseteq Causes
  <2>1. causes \subseteq Causes
    BY DEF TypeOK
  <2>2. QED BY <2>1 DEF install_credential, Cause, Raced, Causes
<1>5. UNCHANGED <<confirmed, registered, initiator, responder, sessions, run, sealed, material, made, early>>
  BY DEF install_credential, keyVars, pairVars
<1>6. QED BY <1>1, <1>2, <1>3, <1>4, <1>5 DEF TypeOK

\* install_version keeps the types.
LEMMA Types_install_version ==
  ASSUME TypeOK, NEW d \in Dev, install_version(d)
  PROVE  TypeOK'
<1>1. op' \in [Dev -> Ops]
  <2>1. op \in [Dev -> Ops]
    BY DEF TypeOK
  <2>2. QED BY <2>1, NewOps DEF install_version
<1>2. confirmed' \in [Dev -> Nat]
  <2>1. op \in [Dev -> Ops] /\ confirmed \in [Dev -> Nat] /\ op[d].at \in InstallSteps
    BY DEF TypeOK, install_version, InstallSteps
  <2>2. Len(op[d].keys) \in Nat
    BY <2>1, OpFields, KeysetFacts
  <2>3. confirmed' = [confirmed EXCEPT ![d] = Len(op[d].keys)] \/ confirmed' = confirmed
    BY DEF install_version
  <2>4. QED BY <2>1, <2>2, <2>3
<1>3. responder' \in [Session -> Dev \cup {""}]
  <2>1. responder \in [Session -> Dev \cup {""}]
    BY DEF TypeOK
  <2>2. QED BY <2>1 DEF install_version
<1>4. sessions' \in [Session -> Rows]
  <2>1. op \in [Dev -> Ops] /\ sessions \in [Session -> Rows] /\ op[d].at \in InstallSteps
    BY DEF TypeOK, install_version, InstallSteps
  <2>2. op[d].session \in Session
    BY <2>1, OpFields
  <2>3. [sessions[op[d].session] EXCEPT !.status = "consumed"] \in Rows
    BY <2>1, <2>2, RowUpdates
  <2>4. \/ sessions' = [sessions EXCEPT ![op[d].session].status = "consumed"]
        \/ sessions' = sessions
    BY DEF install_version
  <2>5. QED BY <2>1, <2>2, <2>3, <2>4
<1>5. credential' \in [Dev -> Int]
  <2>1. credential \in [Dev -> Int]
    BY DEF TypeOK
  <2>2. credential' \in {credential, [credential EXCEPT ![d] = None]}
    BY DEF install_version, Undone
  <2>3. QED BY <2>1, <2>2 DEF None
<1>6. keyring' \in [Dev -> Keysets]
  <2>1. keyring \in [Dev -> Keysets]
    BY DEF TypeOK
  <2>2. QED BY <2>1, KeysetFacts DEF install_version, Undone
<1>7. causes' \subseteq Causes
  <2>1. causes \subseteq Causes
    BY DEF TypeOK
  <2>2. QED BY <2>1 DEF install_version, Cause, Raced, Causes
<1>8. UNCHANGED <<registered, initiator, run, sealed, material, made, early>>
  BY DEF install_version, keyVars, pairVars
<1>9. QED BY <1>1, <1>2, <1>3, <1>4, <1>5, <1>6, <1>7, <1>8 DEF TypeOK

\* revoke_device keeps the types.
LEMMA Types_revoke_device ==
  ASSUME TypeOK, NEW d \in Dev, revoke_device(d)
  PROVE  TypeOK'
<1>1. registered' \in [Dev -> Int]
  <2>1. /\ registered \in [Dev -> Int]
        /\ credential \in [Dev -> Int]
    BY DEF TypeOK
  <2>2. QED BY <2>1 DEF revoke_device, Seen
<1>2. sessions' \in [Session -> Rows]
  <2>1. sessions \in [Session -> Rows]
    BY DEF TypeOK
  <2>2. QED BY <2>1, RowUpdates DEF revoke_device
<1>3. UNCHANGED <<keyring, confirmed, credential, initiator, responder, op, run, sealed, material, made, early, causes>>
  BY DEF revoke_device, keyVars, pairVars
<1>4. QED BY <1>1, <1>2, <1>3 DEF TypeOK

\* run_status keeps the types.
LEMMA Types_run_status ==
  ASSUME TypeOK, NEW d \in Dev, run_status(d)
  PROVE  TypeOK'
<1>1. run' \in [Dev -> Runs]
  <2>1. run \in [Dev -> Runs]
    BY DEF TypeOK
  <2>2. QED BY <2>1, RunUpdates DEF run_status
<1>2. UNCHANGED <<keyring, confirmed, credential, registered, initiator, responder, sessions, op, sealed, material, made, early, causes>>
  BY DEF run_status, keyVars, pairVars
<1>3. QED BY <1>1, <1>2 DEF TypeOK

\* load_keyset keeps the types.
LEMMA Types_load_keyset ==
  ASSUME TypeOK, NEW d \in Dev, load_keyset(d)
  PROVE  TypeOK'
<1>1. run' \in [Dev -> Runs]
  <2>1. /\ run \in [Dev -> Runs]
        /\ keyring \in [Dev -> Keysets]
    BY DEF TypeOK
  <2>2. QED BY <2>1, RunUpdates DEF load_keyset
<1>2. UNCHANGED <<keyring, confirmed, credential, registered, initiator, responder, sessions, op, sealed, material, made, early, causes>>
  BY DEF load_keyset, keyVars, pairVars
<1>3. QED BY <1>1, <1>2 DEF TypeOK

\* seal keeps the types.
LEMMA Types_seal ==
  ASSUME TypeOK, NEW d \in Dev, seal(d)
  PROVE  TypeOK'
<1>1. run' \in [Dev -> Runs]
  <2>1. run \in [Dev -> Runs]
    BY DEF TypeOK
  <2>2. QED BY <2>1, RunUpdates DEF seal
<1>2. sealed' \in [Dev -> SUBSET Nat]
  <2>1. sealed \in [Dev -> SUBSET Nat] /\ run \in [Dev -> Runs]
    BY DEF TypeOK
  <2>2. run[d].keys # <<>> => Last(run[d].keys) \in Nat
    BY <2>1, RunUpdates DEF Last
  <2>3. \/ sealed' = [sealed EXCEPT ![d] = @ \cup {Last(run[d].keys)}] /\ run[d].keys # <<>>
        \/ sealed' = sealed
    BY DEF seal
  <2>4. QED BY <2>1, <2>2, <2>3
<1>3. early' \subseteq Dev
  <2>1. early \subseteq Dev
    BY DEF TypeOK
  <2>2. QED BY <2>1 DEF seal
<1>4. UNCHANGED <<keyring, confirmed, credential, registered, initiator, responder, sessions, op, material, made, causes>>
  BY DEF seal, keyVars, pairVars
<1>5. QED BY <1>1, <1>2, <1>3, <1>4 DEF TypeOK

\* expire keeps the types.
LEMMA Types_expire ==
  ASSUME TypeOK, NEW s \in Session, expire(s)
  PROVE  TypeOK'
<1>1. sessions' \in [Session -> Rows]
  <2>1. sessions \in [Session -> Rows]
    BY DEF TypeOK
  <2>2. QED BY <2>1, RowUpdates DEF expire
<1>2. initiator' \in [Session -> Transfers]
  <2>1. initiator \in [Session -> Transfers]
    BY DEF TypeOK
  <2>2. QED BY <2>1, TransferUpdates DEF expire
<1>3. responder' \in [Session -> Dev \cup {""}]
  <2>1. responder \in [Session -> Dev \cup {""}]
    BY DEF TypeOK
  <2>2. QED BY <2>1 DEF expire
<1>4. UNCHANGED <<keyring, confirmed, credential, registered, op, run, sealed, material, made, early, causes>>
  BY DEF expire, keyVars, pairVars
<1>5. QED BY <1>1, <1>2, <1>3, <1>4 DEF TypeOK

\* restart keeps the types.
LEMMA Types_restart ==
  ASSUME TypeOK, NEW d \in Dev, restart(d)
  PROVE  TypeOK'
<1>1. op' \in [Dev -> Ops]
  <2>1. op \in [Dev -> Ops]
    BY DEF TypeOK
  <2>2. QED BY <2>1, NewOps DEF restart
<1>2. run' \in [Dev -> Runs]
  <2>1. run \in [Dev -> Runs]
    BY DEF TypeOK
  <2>2. QED BY <2>1, RunUpdates DEF restart
<1>3. initiator' \in [Session -> Transfers]
  <2>1. initiator \in [Session -> Transfers]
    BY DEF TypeOK
  <2>2. QED BY <2>1, TransferUpdates DEF restart
<1>4. responder' \in [Session -> Dev \cup {""}]
  <2>1. responder \in [Session -> Dev \cup {""}]
    BY DEF TypeOK
  <2>2. QED BY <2>1 DEF restart
<1>5. UNCHANGED <<keyring, confirmed, credential, registered, sessions, sealed, material, made, early, causes>>
  BY DEF restart, keyVars, pairVars
<1>6. QED BY <1>1, <1>2, <1>3, <1>4, <1>5 DEF TypeOK

\* The transfer of an approval: the one in hand, or a new one of the keyset.
LEMMA PreparedFacts ==
  ASSUME TypeOK, NEW d \in Dev, NEW s \in Session, NEW transfer \in Prepared(d, s)
  PROVE  /\ transfer \in Transfers /\ transfer.at = "prepared"
         /\ \/ initiator[s].at = "prepared" /\ transfer = initiator[s]
            \/ /\ initiator[s].at = "exchange" /\ sessions[s].status = "joined"
               /\ transfer.keys = keyring[d] /\ transfer.token = made + 1
<1>1. keyring[d] \in Keysets /\ made \in Nat /\ initiator[s] \in Transfers
  BY DEF TypeOK
<1>2. CASE initiator[s].at = "prepared"
  BY <1>1, <1>2 DEF Prepared
<1>3. CASE initiator[s].at # "prepared"
  <2>1. /\ transfer = [at |-> "prepared", keys |-> keyring[d], token |-> made + 1]
        /\ initiator[s].at = "exchange" /\ sessions[s].status = "joined"
    BY <1>3 DEF Prepared
  <2>2. made + 1 \in Nat
    BY <1>1
  <2>3. QED BY <2>1, <2>2, <1>1, TransferUpdates
<1>4. QED BY <1>2, <1>3

\* A session that is ready for the transfer t.
MadeReady(s, t) ==
  [sessions EXCEPT ![s] = [sessions[s] EXCEPT !.status = "ready", !.keys = t.keys, !.token = t.token]]

\* What the gateway does with a transfer: it holds it already, or stores it.
LEMMA FinalizedFacts ==
  ASSUME TypeOK, NEW s \in Session, NEW t \in Transfers, NEW answer \in Finalized(s, t)
  PROVE  \/ answer.sessions = sessions /\ answer.registered = Seen(sessions[s].by)
         \/ /\ sessions[s].status = "joined" /\ registered[sessions[s].device] = None
            /\ answer.sessions = MadeReady(s, t)
            /\ answer.registered = [Seen(sessions[s].by) EXCEPT ![sessions[s].device] = t.token]
<1>1. sessions \in [Session -> Rows]
  BY DEF TypeOK
<1>2. CASE /\ sessions[s].status = "ready" /\ sessions[s].keys = t.keys
           /\ sessions[s].token = t.token /\ registered[sessions[s].device] = t.token
  BY <1>2 DEF Finalized
<1>3. CASE ~(/\ sessions[s].status = "ready" /\ sessions[s].keys = t.keys
             /\ sessions[s].token = t.token /\ registered[sessions[s].device] = t.token)
  <2>1. /\ sessions[s].status = "joined" /\ registered[sessions[s].device] = None
        /\ answer = [sessions |-> [sessions EXCEPT ![s].status = "ready", ![s].keys = t.keys,
                                                    ![s].token = t.token],
                     registered |-> [Seen(sessions[s].by) EXCEPT ![sessions[s].device] = t.token]]
    BY <1>3 DEF Finalized
  <2>2. [sessions EXCEPT ![s].status = "ready", ![s].keys = t.keys, ![s].token = t.token]
          = MadeReady(s, t)
    BY <1>1 DEF Rows, MadeReady
  <2>3. QED BY <2>1, <2>2
<1>4. QED BY <1>2, <1>3

\* An approval: the gateway stores the transfer, or nothing new.
LEMMA Approval ==
  ASSUME TypeOK, NEW d \in Dev, approve_pairing(d)
  PROVE  \E s \in Session : \E t \in Prepared(d, s) :
           /\ sessions[s].by = d /\ Authorized(d)
           /\ made' \in {made, made + 1}
           /\ initiator' \in {[initiator EXCEPT ![s] = NoState], [initiator EXCEPT ![s] = t]}
           /\ \/ sessions' = sessions /\ registered' = Seen(d)
              \/ /\ sessions[s].status = "joined" /\ registered[sessions[s].device] = None
                 /\ sessions' = MadeReady(s, t)
                 /\ registered' = [Seen(d) EXCEPT ![sessions[s].device] = t.token]
<1>0. PICK s \in Session : \E t \in Prepared(d, s) :
        /\ sessions[s].by = d
        /\ made' = IF initiator[s].at = "exchange" THEN made + 1 ELSE made
        /\ \/ \E answer \in Finalized(s, t) :
                /\ sessions' = answer.sessions /\ registered' = answer.registered
                /\ initiator' \in {[initiator EXCEPT ![s] = NoState], [initiator EXCEPT ![s] = t]}
           \/ /\ initiator' \in {[initiator EXCEPT ![s] = NoState], [initiator EXCEPT ![s] = t]}
              /\ registered' = Seen(d) /\ sessions' = sessions
  BY DEF approve_pairing
<1>1. PICK t \in Prepared(d, s) :
        /\ sessions[s].by = d
        /\ made' = IF initiator[s].at = "exchange" THEN made + 1 ELSE made
        /\ \/ \E answer \in Finalized(s, t) :
                /\ sessions' = answer.sessions /\ registered' = answer.registered
                /\ initiator' \in {[initiator EXCEPT ![s] = NoState], [initiator EXCEPT ![s] = t]}
           \/ /\ initiator' \in {[initiator EXCEPT ![s] = NoState], [initiator EXCEPT ![s] = t]}
              /\ registered' = Seen(d) /\ sessions' = sessions
  BY <1>0
<1>2. t \in Transfers
  BY <1>1, PreparedFacts
<1>3. CASE \E answer \in Finalized(s, t) :
             /\ sessions' = answer.sessions /\ registered' = answer.registered
             /\ initiator' \in {[initiator EXCEPT ![s] = NoState], [initiator EXCEPT ![s] = t]}
  <2>1. PICK answer \in Finalized(s, t) :
             /\ sessions' = answer.sessions /\ registered' = answer.registered
             /\ initiator' \in {[initiator EXCEPT ![s] = NoState], [initiator EXCEPT ![s] = t]}
    BY <1>3
  <2>2. \/ answer.sessions = sessions /\ answer.registered = Seen(d)
        \/ /\ sessions[s].status = "joined" /\ registered[sessions[s].device] = None
           /\ answer.sessions = MadeReady(s, t)
           /\ answer.registered = [Seen(d) EXCEPT ![sessions[s].device] = t.token]
    BY <1>1, <1>2, FinalizedFacts
  <2>3. QED BY <1>1, <2>1, <2>2 DEF approve_pairing
<1>4. CASE /\ initiator' \in {[initiator EXCEPT ![s] = NoState], [initiator EXCEPT ![s] = t]}
           /\ registered' = Seen(d) /\ sessions' = sessions
  BY <1>1, <1>4 DEF approve_pairing
<1>5. QED BY <1>1, <1>3, <1>4

\* approve_pairing keeps the types.
LEMMA Types_approve_pairing ==
  ASSUME TypeOK, NEW d \in Dev, approve_pairing(d)
  PROVE  TypeOK'
<1>0. PICK s \in Session : \E t \in Prepared(d, s) :
           /\ made' \in {made, made + 1}
           /\ initiator' \in {[initiator EXCEPT ![s] = NoState], [initiator EXCEPT ![s] = t]}
           /\ \/ sessions' = sessions /\ registered' = Seen(d)
              \/ /\ sessions' = MadeReady(s, t)
                 /\ registered' = [Seen(d) EXCEPT ![sessions[s].device] = t.token]
  BY Approval
<1>1. PICK t \in Prepared(d, s) :
           /\ made' \in {made, made + 1}
           /\ initiator' \in {[initiator EXCEPT ![s] = NoState], [initiator EXCEPT ![s] = t]}
           /\ \/ sessions' = sessions /\ registered' = Seen(d)
              \/ /\ sessions' = MadeReady(s, t)
                 /\ registered' = [Seen(d) EXCEPT ![sessions[s].device] = t.token]
  BY <1>0
<1>2. t \in Transfers /\ NoState \in Transfers /\ t.keys \in Keysets /\ t.token \in Nat
  BY PreparedFacts, TransferUpdates
<1>3. made' \in Nat
  <2>1. made \in Nat
    BY DEF TypeOK
  <2>2. QED BY <2>1, <1>1
<1>4. initiator' \in [Session -> Transfers]
  <2>1. initiator \in [Session -> Transfers]
    BY DEF TypeOK
  <2>2. QED BY <2>1, <1>1, <1>2
<1>5. sessions' \in [Session -> Rows]
  <2>1. sessions \in [Session -> Rows]
    BY DEF TypeOK
  <2>2. [sessions[s] EXCEPT !.status = "ready", !.keys = t.keys, !.token = t.token] \in Rows
    BY <2>1, <1>2, RowUpdates
  <2>3. QED BY <2>1, <2>2, <1>1 DEF MadeReady
<1>6. registered' \in [Dev -> Int]
  <2>1. registered \in [Dev -> Int] /\ credential \in [Dev -> Int]
    BY DEF TypeOK
  <2>2. QED BY <2>1, <1>1, <1>2 DEF Seen
<1>7. UNCHANGED <<keyring, confirmed, credential, responder, op, run, sealed, material, early, causes>>
  BY DEF approve_pairing, keyVars, pairVars
<1>8. QED BY <1>3, <1>4, <1>5, <1>6, <1>7 DEF TypeOK

\* The state has its type in every step.
LEMMA NextTypes == TypeOK /\ [Next]_vars => TypeOK'
<1>1. SUFFICES ASSUME TypeOK, [Next]_vars PROVE TypeOK'
  OBVIOUS
<1>2. CASE UNCHANGED vars
  BY <1>1, <1>2 DEF vars, keyVars, pairVars, TypeOK
<1>3. CASE \E s \in Session : expire(s)
  BY <1>1, <1>3, Types_expire
<1>4. ASSUME NEW d \in Dev,
        \/ begin_e2ee_setup(d) \/ begin_e2ee_rotation(d) \/ confirm_e2ee_setup(d)
        \/ restore_e2ee(d) \/ restore_confirm(d) \/ discard_e2ee_setup(d)
        \/ set_sync_credential(d) \/ start_pairing(d) \/ join_pairing(d)
      PROVE TypeOK'
  BY <1>1, <1>4, Types_begin_e2ee_setup, Types_begin_e2ee_rotation, Types_confirm_e2ee_setup,
     Types_restore_e2ee, Types_restore_confirm, Types_discard_e2ee_setup, Types_set_sync_credential,
     Types_start_pairing, Types_join_pairing
<1>5. ASSUME NEW d \in Dev,
        \/ approve_pairing(d) \/ finish_pairing(d) \/ install_keyset(d)
        \/ install_credential(d) \/ install_version(d) \/ revoke_device(d)
        \/ run_status(d) \/ load_keyset(d) \/ seal(d) \/ restart(d)
      PROVE TypeOK'
  BY <1>1, <1>5, Types_approve_pairing, Types_finish_pairing, Types_install_keyset,
     Types_install_credential, Types_install_version, Types_revoke_device, Types_run_status,
     Types_load_keyset, Types_seal, Types_restart
<1>6. QED BY <1>1, <1>2, <1>3, <1>4, <1>5 DEF Next

-----------------------------------------------------------------------------
(* The inductive invariant.                                                *)

\* The race or failure that explains an exception has happened to the device.
Met(kind, d) == <<kind, d>> \in causes

\* Nothing has been sealed, and no run is under way, before a version is
\* confirmed; it never is unconfirmed again.
Held(d) ==
    /\ confirmed[d] <= Len(keyring[d])
    /\ confirmed[d] = 0 => run[d].at = "idle" /\ sealed[d] = {}

\* Undoing a recovery leaves the confirmed keys where they are.
Restoring(d) ==
    op[d].at = "restored" =>
        /\ keyring[d] # <<>> /\ confirmed[d] <= Len(op[d].old) /\ Len(op[d].old) <= Len(keyring[d])
        /\ \A i \in 1 .. Len(op[d].old) : op[d].old[i] = keyring[d][i]

\* The installation of a package has written what its step says.
Installing(d) ==
    op[d].at \in InstallSteps =>
        /\ confirmed[d] = 0 /\ op[d].keys # <<>>
        /\ keyring[d] = IF op[d].at = "install_keyset" THEN <<>> ELSE op[d].keys

\* A run has confirmed keys in hand, and every key used so far is a confirmed
\* one, unless the key ring was written while the run was about to read it.
InHand(d) ==
    \/ Met("race", d)
    \/ /\ \A k \in sealed[d] : \E i \in 1 .. confirmed[d] : keyring[d][i] = k
       /\ run[d].at = "checked" => Len(keyring[d]) = confirmed[d]
       /\ run[d].at = "loaded" => /\ Len(run[d].keys) \in 1 .. confirmed[d]
                                  /\ \A i \in 1 .. Len(run[d].keys) : run[d].keys[i] = keyring[d][i]
       /\ d \notin early

\* What concerns the keys of one device.
Local(d) == Held(d) /\ Restoring(d) /\ Installing(d) /\ InHand(d)

\* The gateway keeps the credential it has given to a device, until the device
\* uses the one of the gateway's configuration.
Known(d) ==
    /\ credential[d] > None => registered[d] \in {credential[d], Manual}
    /\ op[d].at \in InstallSteps => op[d].token > 0 /\ registered[d] \in {op[d].token, Manual}

\* A session and the two devices that have it in memory agree.
Passed(s) ==
    /\ sessions[s].status = "ready" =>
         /\ sessions[s].device \in Dev /\ sessions[s].keys # <<>> /\ sessions[s].token > 0
         /\ registered[sessions[s].device] \in {sessions[s].token, Manual}
         /\ initiator[s].at # "none" =>
              /\ initiator[s].at = "prepared"
              /\ initiator[s].keys = sessions[s].keys /\ initiator[s].token = sessions[s].token
    /\ sessions[s].status = "joined" => sessions[s].device \in Dev
    /\ initiator[s].at = "prepared" => initiator[s].keys # <<>> /\ initiator[s].token > 0
    /\ initiator[s].at = "exchange" /\ sessions[s].by # "" => confirmed[sessions[s].by] # 0
    /\ responder[s] # "" =>
         /\ sessions[s].status \notin {"none", "open"}
         /\ sessions[s].status \in {"joined", "ready"} => sessions[s].device = responder[s]

\* The device waits for the package of a session, and nothing has configured it
\* in another way or was left behind.
Responds(d) == \E s \in Session : responder[s] = d
Undisturbed(d) == ~Met("undo", d) /\ ~Met("setup", d)

\* A device that waits for its package has written what the installation has
\* written so far.
Paired(d) ==
    Responds(d) /\ confirmed[d] = 0 /\ Undisturbed(d) =>
        /\ op[d].at # "restored"
        /\ op[d].at \in {"idle", "install_keyset"} => keyring[d] = <<>>
        /\ credential[d] = IF op[d].at = "install_version" THEN op[d].token ELSE None

\* The inductive invariant: the parts of each device and each session.
KeysInv ==
    /\ TypeOK /\ <<>> \notin material
    /\ \A d \in Dev : Local(d) /\ Known(d) /\ Paired(d)
    /\ \A s \in Session : Passed(s)

\* The invariant holds at the start.
LEMMA InitInv == Init => KeysInv
<1>1. SUFFICES ASSUME Init PROVE KeysInv
  OBVIOUS
<1>2. TypeOK
  BY <1>1, InitTypes
<1>3. PICK owner \in SUBSET Configured :
        /\ keyring = [d \in Dev |-> IF d \in owner THEN <<1>> ELSE <<>>]
        /\ credential = [d \in Dev |-> IF d \in owner THEN Manual ELSE None]
        /\ confirmed = [d \in Dev |-> IF d \in owner THEN 1 ELSE 0]
        /\ material = IF owner = {} THEN {} ELSE {<<1>>}
  BY <1>1 DEF Init
<1>4. <<1>> # <<>> /\ Len(<<1>>) = 1 /\ Len(<<>>) = 0
  BY KeysetFacts
<1>5. <<>> \notin material
  BY <1>3, <1>4
<1>6. ASSUME NEW d \in Dev PROVE Local(d) /\ Known(d) /\ Paired(d)
  <2>1. /\ op[d] = NoOp /\ run[d] = NoRun /\ sealed[d] = {} /\ d \notin early
        /\ ~Responds(d)
    BY <1>1, KeysAssumption DEF Init, Responds
  <2>2. confirmed[d] <= Len(keyring[d]) /\ ~(credential[d] > None)
    BY <1>3, <1>4 DEF Manual, None
  <2>3. QED BY <2>1, <2>2 DEF Local, Held, Restoring, Installing, InHand, Known, Paired, NoOp, NoRun,
            InstallSteps
<1>7. ASSUME NEW s \in Session PROVE Passed(s)
  BY <1>1 DEF Init, Passed, NoSession, NoState
<1>8. QED BY <1>2, <1>5, <1>6, <1>7 DEF KeysInv

-----------------------------------------------------------------------------
(* The keys of one device.                                                 *)

\* Types of the state of one device.
LEMMA LocalTypes ==
  ASSUME TypeOK, NEW d \in Dev
  PROVE  /\ keyring[d] \in Keysets /\ Len(keyring[d]) \in Nat /\ confirmed[d] \in Nat
         /\ Len(keyring[d]) = 0 <=> keyring[d] = <<>>
         /\ run[d] \in Runs /\ run[d].keys \in Keysets /\ Len(run[d].keys) \in Nat
         /\ run[d].at \in {"idle", "checked", "loaded"}
         /\ op[d] \in Ops
<1>1. keyring[d] \in Keysets /\ run[d] \in Runs /\ confirmed[d] \in Nat /\ op[d] \in Ops
  BY DEF TypeOK
<1>2. QED BY <1>1, KeysetFacts DEF Runs

\* A step that does not concern the keys of the device.
Same(d) ==
    /\ keyring'[d] = keyring[d] /\ confirmed'[d] = confirmed[d] /\ op'[d] = op[d]
    /\ run'[d] = run[d] /\ sealed'[d] = sealed[d]
    /\ causes \subseteq causes' /\ (d \in early' => d \in early)

\* What is not touched stays as it is.
LEMMA LocalFrame ==
  ASSUME NEW d, Local(d), Same(d)
  PROVE  Local(d)'
BY DEF Local, Same, Held, Restoring, Installing, InHand, Met

\* The key ring and the operations of an unconfirmed device do not matter to
\* what was sealed: nothing.
LEMMA UnconfirmedStep ==
  ASSUME TypeOK, TypeOK', NEW d \in Dev, Local(d), confirmed[d] = 0, confirmed'[d] = 0,
         run'[d] = run[d], sealed'[d] = sealed[d], causes \subseteq causes', early' = early
  PROVE  Held(d)' /\ InHand(d)'
<1>1. Held(d)'
  <2>1. keyring'[d] \in Keysets
    BY DEF TypeOK
  <2>2. Len(keyring'[d]) \in Nat
    BY <2>1, KeysetFacts
  <2>3. QED BY <2>2 DEF Local, Held
<1>2. InHand(d)'
  BY DEF Local, Held, InHand, Met
<1>3. QED BY <1>1, <1>2

\* A keyset that keeps its confirmed keys keeps what a run has in hand, unless
\* the run is about to load it.
LEMMA KeepStep ==
  ASSUME TypeOK, TypeOK', NEW d \in Dev, Local(d), confirmed'[d] = confirmed[d],
         run'[d] = run[d], sealed'[d] = sealed[d], causes \subseteq causes', early' = early,
         confirmed[d] <= Len(keyring'[d]),
         \A i \in 1 .. confirmed[d] : keyring'[d][i] = keyring[d][i],
         keyring'[d] = keyring[d] \/ Raced(d) = {} \/ <<"race", d>> \in causes'
  PROVE  Held(d)' /\ InHand(d)'
<1>1. /\ Len(keyring[d]) \in Nat /\ confirmed[d] \in Nat /\ Len(run[d].keys) \in Nat
  BY LocalTypes
<1>2. Len(keyring'[d]) \in Nat
  <2>1. keyring'[d] \in Keysets
    BY DEF TypeOK
  <2>2. QED BY <2>1, KeysetFacts
<1>3. Held(d)'
  BY <1>1, <1>2 DEF Local, Held
<1>4. CASE Met("race", d)'
  BY <1>3, <1>4 DEF InHand, Met
<1>5. CASE ~Met("race", d)'
  <2>1. ~Met("race", d)
    BY <1>5 DEF Met
  <2>2. /\ \A k \in sealed[d] : \E i \in 1 .. confirmed[d] : keyring[d][i] = k
        /\ run[d].at = "checked" => Len(keyring[d]) = confirmed[d]
        /\ run[d].at = "loaded" => /\ Len(run[d].keys) \in 1 .. confirmed[d]
                                   /\ \A i \in 1 .. Len(run[d].keys) : run[d].keys[i] = keyring[d][i]
        /\ d \notin early
    BY <2>1 DEF Local, InHand
  <2>3. confirmed[d] <= Len(keyring[d])
    BY DEF Local, Held
  <2>4. \A k \in sealed'[d] : \E i \in 1 .. confirmed'[d] : keyring'[d][i] = k
    BY <1>1, <2>2, <2>3
  <2>5. run'[d].at = "checked" => Len(keyring'[d]) = confirmed'[d]
    <3>1. run[d].at = "checked" => Raced(d) # {}
      BY DEF Raced
    <3>2. QED BY <1>5, <2>2, <3>1 DEF Met
  <2>6. run'[d].at = "loaded" => /\ Len(run'[d].keys) \in 1 .. confirmed'[d]
                                 /\ \A i \in 1 .. Len(run'[d].keys) : run'[d].keys[i] = keyring'[d][i]
    BY <1>1, <2>2, <2>3
  <2>7. QED BY <1>3, <2>2, <2>4, <2>5, <2>6 DEF InHand
<1>6. QED BY <1>3, <1>4, <1>5

\* Confirming the keyset that is held.
LEMMA ConfirmStep ==
  ASSUME TypeOK, TypeOK', NEW d \in Dev, Local(d), confirmed'[d] = Len(keyring[d]),
         keyring[d] # <<>>, keyring'[d] = keyring[d],
         run'[d] = run[d], sealed'[d] = sealed[d], causes \subseteq causes', early' = early
  PROVE  Held(d)' /\ InHand(d)'
<1>1. /\ Len(keyring[d]) \in Nat /\ Len(keyring[d]) # 0 /\ confirmed[d] \in Nat
      /\ Len(run[d].keys) \in Nat
  BY LocalTypes
<1>2. Held(d)'
  BY <1>1 DEF Held
<1>3. confirmed[d] <= confirmed'[d]
  BY <1>1 DEF Local, Held
<1>4. CASE Met("race", d)
  BY <1>2, <1>4 DEF InHand, Met
<1>5. CASE ~Met("race", d)
  <2>1. /\ \A k \in sealed[d] : \E i \in 1 .. confirmed[d] : keyring[d][i] = k
        /\ run[d].at = "loaded" => /\ Len(run[d].keys) \in 1 .. confirmed[d]
                                   /\ \A i \in 1 .. Len(run[d].keys) : run[d].keys[i] = keyring[d][i]
        /\ d \notin early
    BY <1>5 DEF Local, InHand
  <2>2. \A k \in sealed'[d] : \E i \in 1 .. confirmed'[d] : keyring'[d][i] = k
    BY <1>1, <1>3, <2>1
  <2>3. run'[d].at = "checked" => Len(keyring'[d]) = confirmed'[d]
    OBVIOUS
  <2>4. run'[d].at = "loaded" => /\ Len(run'[d].keys) \in 1 .. confirmed'[d]
                                 /\ \A i \in 1 .. Len(run'[d].keys) : run'[d].keys[i] = keyring'[d][i]
    BY <1>1, <1>3, <2>1
  <2>5. QED BY <1>2, <2>1, <2>2, <2>3, <2>4 DEF InHand
<1>6. QED BY <1>2, <1>4, <1>5

\* Between two operations there is nothing to undo.
LEMMA IdleStep ==
  ASSUME NEW d \in Dev, op'[d].at = "idle"
  PROVE  Restoring(d)' /\ Installing(d)'
BY DEF Restoring, Installing, InstallSteps

\* A setup writes the key ring of a device that has none.
LEMMA Local_begin_e2ee_setup ==
  ASSUME TypeOK, TypeOK', NEW d \in Dev, begin_e2ee_setup(d), \A e \in Dev : Local(e)
  PROVE  \A e \in Dev : Local(e)'
<1>0. /\ keyring \in [Dev -> Keysets] /\ causes \subseteq causes' /\ op[d] = NoOp
      /\ UNCHANGED <<confirmed, op, run, sealed, early>>
  BY DEF TypeOK, begin_e2ee_setup, User, Cause, pairVars
<1>1. ASSUME NEW e \in Dev, e # d PROVE Local(e)'
  <2>1. keyring'[e] = keyring[e]
    BY <1>0, <1>1 DEF begin_e2ee_setup, Written, WriteFailed
  <2>2. QED BY <1>0, <2>1, LocalFrame DEF Same
<1>2. CASE keyring[d] # <<>>
  <2>1. keyring' = keyring
    BY <1>2 DEF begin_e2ee_setup
  <2>2. Local(d)'
    BY <1>0, <2>1, LocalFrame DEF Same
  <2>3. QED BY <1>1, <2>2
<1>3. CASE keyring[d] = <<>>
  <2>1. confirmed[d] = 0
    BY <1>3, LocalTypes DEF Local, Held
  <2>2. Held(d)' /\ InHand(d)'
    BY <1>0, <2>1, UnconfirmedStep
  <2>3. Local(d)'
    BY <1>0, <2>2, IdleStep DEF Local, NoOp
  <2>4. QED BY <1>1, <2>3
<1>4. QED BY <1>2, <1>3

\* A rotation appends to the keyset, and races with a run that has looked at its
\* status.
LEMMA Local_begin_e2ee_rotation ==
  ASSUME TypeOK, TypeOK', NEW d \in Dev, begin_e2ee_rotation(d), \A e \in Dev : Local(e)
  PROVE  \A e \in Dev : Local(e)'
<1>0. /\ keyring \in [Dev -> Keysets] /\ causes \subseteq causes' /\ op[d] = NoOp
      /\ UNCHANGED <<confirmed, op, run, sealed, early>>
  BY DEF TypeOK, begin_e2ee_rotation, User, Cause, pairVars
<1>1. ASSUME NEW e \in Dev, e # d PROVE Local(e)'
  <2>1. keyring'[e] = keyring[e]
    BY <1>0, <1>1 DEF begin_e2ee_rotation, Written, WriteFailed
  <2>2. QED BY <1>0, <2>1, LocalFrame DEF Same
<1>2. /\ keyring'[d] = keyring[d] \/ keyring'[d] = rotate(keyring[d])
      /\ keyring'[d] = keyring[d] \/ Raced(d) = {} \/ <<"race", d>> \in causes'
  BY <1>0 DEF begin_e2ee_rotation, Written, WriteFailed, Cause, Raced
<1>3. /\ Len(keyring'[d]) >= Len(keyring[d])
      /\ \A i \in 1 .. Len(keyring[d]) : keyring'[d][i] = keyring[d][i]
  <2>1. made \in Nat /\ Len(keyring[d]) \in Nat
    BY LocalTypes DEF TypeOK
  <2>2. QED BY <1>0, <1>2, <2>1, Rotated
<1>4. confirmed[d] <= Len(keyring[d]) /\ Len(keyring[d]) \in Nat /\ confirmed[d] \in Nat
  BY LocalTypes DEF Local, Held
<1>5. Len(keyring'[d]) \in Nat
  <2>1. keyring'[d] \in Keysets
    BY DEF TypeOK
  <2>2. QED BY <2>1, KeysetFacts
<1>6. Held(d)' /\ InHand(d)'
  <2>1. confirmed[d] <= Len(keyring'[d]) /\ \A i \in 1 .. confirmed[d] : keyring'[d][i] = keyring[d][i]
    BY <1>3, <1>4, <1>5
  <2>2. QED BY <1>0, <1>2, <2>1, KeepStep
<1>7. Local(d)'
  BY <1>0, <1>6, IdleStep DEF Local, NoOp
<1>8. QED BY <1>1, <1>7

\* Confirming makes every key in the key ring a confirmed one.
LEMMA Local_confirm_e2ee_setup ==
  ASSUME TypeOK, TypeOK', NEW d \in Dev, confirm_e2ee_setup(d), \A e \in Dev : Local(e)
  PROVE  \A e \in Dev : Local(e)'
<1>0. /\ confirmed \in [Dev -> Nat] /\ op[d] = NoOp /\ keyring[d] # <<>>
      /\ confirmed' = [confirmed EXCEPT ![d] = Len(keyring[d])]
      /\ UNCHANGED <<keyring, op, run, sealed, early, causes>>
  BY DEF TypeOK, confirm_e2ee_setup, User, pairVars
<1>1. ASSUME NEW e \in Dev, e # d PROVE Local(e)'
  BY <1>0, <1>1, LocalFrame DEF Same
<1>2. Held(d)' /\ InHand(d)'
  BY <1>0, ConfirmStep
<1>3. Local(d)'
  BY <1>0, <1>2, IdleStep DEF Local, NoOp
<1>4. QED BY <1>1, <1>3

\* A recovery only extends the keyset.
LEMMA Local_restore_e2ee ==
  ASSUME TypeOK, TypeOK', NEW d \in Dev, restore_e2ee(d), \A e \in Dev : Local(e), <<>> \notin material
  PROVE  \A e \in Dev : Local(e)'
<1>0. /\ keyring \in [Dev -> Keysets] /\ op \in [Dev -> Ops] /\ material \subseteq Keysets
      /\ causes \subseteq causes' /\ op[d] = NoOp
      /\ UNCHANGED <<confirmed, run, sealed, early>>
  BY DEF TypeOK, restore_e2ee, User, Cause, pairVars
<1>1. ASSUME NEW e \in Dev, e # d PROVE Local(e)'
  <2>1. keyring'[e] = keyring[e] /\ op'[e] = op[e]
    BY <1>0, <1>1 DEF restore_e2ee, Written, WriteFailed
  <2>2. QED BY <1>0, <2>1, LocalFrame DEF Same
<1>2. PICK new \in material :
        \/ /\ new = keyring[d] /\ keyring' = keyring
           /\ op' = [op EXCEPT ![d] = [at |-> "restored", old |-> keyring[d]]]
        \/ /\ keyring[d] = <<>> \/ is_compatible_upgrade_from(new, keyring[d])
           /\ \/ /\ keyring' = [keyring EXCEPT ![d] = new]
                 /\ op' = [op EXCEPT ![d] = [at |-> "restored", old |-> keyring[d]]]
              \/ keyring' \in {keyring, [keyring EXCEPT ![d] = new]} /\ op' = op
           /\ Cause(d, Raced(d) \cup {"setup"})
  BY DEF restore_e2ee, Written, WriteFailed
<1>3. /\ new \in Keysets /\ new # <<>> /\ Len(new) \in Nat /\ Len(new) # 0
      /\ Len(keyring[d]) \in Nat /\ confirmed[d] \in Nat /\ confirmed[d] <= Len(keyring[d])
      /\ Len(keyring[d]) = 0 <=> keyring[d] = <<>>
  BY <1>0, <1>2, KeysetFacts, LocalTypes DEF Local, Held
<1>4. keyring'[d] \in {keyring[d], new}
  BY <1>0, <1>2
<1>5. keyring'[d] # keyring[d] => keyring[d] = <<>> \/ is_compatible_upgrade_from(new, keyring[d])
  BY <1>0, <1>2
<1>6. /\ Len(keyring'[d]) >= Len(keyring[d])
      /\ \A i \in 1 .. Len(keyring[d]) : keyring'[d][i] = keyring[d][i]
  BY <1>0, <1>3, <1>4, <1>5, Upgraded
<1>7. keyring'[d] = keyring[d] \/ Raced(d) = {} \/ <<"race", d>> \in causes'
  BY <1>0, <1>2 DEF Cause, Raced
<1>8. Held(d)' /\ InHand(d)'
  <2>1. confirmed[d] <= Len(keyring'[d]) /\ \A i \in 1 .. confirmed[d] : keyring'[d][i] = keyring[d][i]
    BY <1>3, <1>4, <1>6
  <2>2. QED BY <1>0, <1>7, <2>1, KeepStep
<1>9. CASE op' = op
  <2>1. Local(d)'
    BY <1>0, <1>8, <1>9, IdleStep DEF Local, NoOp
  <2>2. QED BY <1>1, <2>1
<1>10. CASE op' # op
  <2>1. op'[d] = [at |-> "restored", old |-> keyring[d]] /\ keyring'[d] = new
    BY <1>0, <1>2, <1>10
  <2>2. Restoring(d)'
    BY <1>0, <1>3, <1>6, <2>1 DEF Restoring
  <2>3. Installing(d)'
    BY <2>1 DEF Installing, InstallSteps
  <2>4. Local(d)'
    BY <1>8, <2>2, <2>3 DEF Local
  <2>5. QED BY <1>1, <2>4
<1>11. QED BY <1>9, <1>10

\* Undoing a recovery puts back a keyset that holds the confirmed keys.
LEMMA Local_restore_confirm ==
  ASSUME TypeOK, TypeOK', NEW d \in Dev, restore_confirm(d), \A e \in Dev : Local(e)
  PROVE  \A e \in Dev : Local(e)'
<1>0. /\ keyring \in [Dev -> Keysets] /\ op \in [Dev -> Ops] /\ confirmed \in [Dev -> Nat]
      /\ causes \subseteq causes' /\ op' = [op EXCEPT ![d] = NoOp] /\ op[d].at = "restored"
      /\ UNCHANGED <<run, sealed, early>>
  BY DEF TypeOK, restore_confirm, Cause, pairVars
<1>1. ASSUME NEW e \in Dev, e # d PROVE Local(e)'
  <2>1. keyring'[e] = keyring[e] /\ op'[e] = op[e] /\ confirmed'[e] = confirmed[e]
    BY <1>0, <1>1 DEF restore_confirm
  <2>2. QED BY <1>0, <2>1, LocalFrame DEF Same
<1>2. /\ keyring[d] # <<>> /\ confirmed[d] <= Len(op[d].old) /\ Len(op[d].old) <= Len(keyring[d])
      /\ \A i \in 1 .. Len(op[d].old) : op[d].old[i] = keyring[d][i]
      /\ confirmed[d] <= Len(keyring[d])
  BY <1>0 DEF Local, Restoring, Held
<1>3. Held(d)' /\ InHand(d)'
  <2>1. CASE confirmed' = [confirmed EXCEPT ![d] = Len(keyring[d])] /\ keyring' = keyring
    BY <1>0, <1>2, <2>1, ConfirmStep
  <2>2. CASE confirmed' = confirmed /\ keyring' \in {keyring, [keyring EXCEPT ![d] = op[d].old]}
    <3>1. Raced(d) = {} \/ <<"race", d>> \in causes'
      BY DEF restore_confirm, Cause, Raced
    <3>2. keyring'[d] = keyring[d] \/ keyring'[d] = op[d].old
      BY <1>0, <2>2
    <3>3. op[d].old \in Keysets /\ Len(op[d].old) \in Nat /\ confirmed[d] \in Nat
      BY <1>0, OpFields, KeysetFacts
    <3>4. confirmed[d] <= Len(keyring'[d]) /\ \A i \in 1 .. confirmed[d] : keyring'[d][i] = keyring[d][i]
      BY <1>2, <3>2, <3>3
    <3>5. QED BY <1>0, <2>2, <3>1, <3>4, KeepStep
  <2>3. QED BY <2>1, <2>2 DEF restore_confirm
<1>4. Local(d)'
  BY <1>0, <1>3, IdleStep DEF Local, NoOp
<1>5. QED BY <1>1, <1>4

\* Only a setup that was never confirmed is discarded.
LEMMA Local_discard_e2ee_setup ==
  ASSUME TypeOK, TypeOK', NEW d \in Dev, discard_e2ee_setup(d), \A e \in Dev : Local(e)
  PROVE  \A e \in Dev : Local(e)'
<1>0. /\ keyring \in [Dev -> Keysets] /\ op[d] = NoOp /\ confirmed[d] = 0
      /\ keyring' \in {keyring, [keyring EXCEPT ![d] = <<>>]}
      /\ UNCHANGED <<confirmed, op, run, sealed, early, causes>>
  BY DEF TypeOK, discard_e2ee_setup, User, Written, WriteFailed, pairVars
<1>1. ASSUME NEW e \in Dev, e # d PROVE Local(e)'
  BY <1>0, <1>1, LocalFrame DEF Same
<1>2. Held(d)' /\ InHand(d)'
  BY <1>0, UnconfirmedStep
<1>3. Local(d)'
  BY <1>0, <1>2, IdleStep DEF Local, NoOp
<1>4. QED BY <1>1, <1>3

\* A package is received by a device without keys, and holds some.
LEMMA Local_finish_pairing ==
  ASSUME TypeOK, TypeOK', NEW d \in Dev, finish_pairing(d), \A e \in Dev : Local(e),
         \A s \in Session : Passed(s)
  PROVE  \A e \in Dev : Local(e)'
<1>0. /\ op \in [Dev -> Ops] /\ op[d] = NoOp /\ Unconfigured(d)
      /\ UNCHANGED <<keyring, confirmed, run, sealed, early, causes>>
  BY DEF TypeOK, finish_pairing, User, keyVars
<1>1. PICK s \in Session :
        /\ sessions[s].status = "ready"
        /\ op' = [op EXCEPT ![d] = [at |-> "install_keyset", session |-> s,
                                    keys |-> sessions[s].keys, token |-> sessions[s].token]]
  BY DEF finish_pairing
<1>2. ASSUME NEW e \in Dev, e # d PROVE Local(e)'
  BY <1>0, <1>1, <1>2, LocalFrame DEF Same
<1>3. Held(d)' /\ InHand(d)'
  BY <1>0, UnconfirmedStep DEF Unconfigured
<1>4. op'[d].at = "install_keyset" /\ op'[d].keys = sessions[s].keys
  BY <1>0, <1>1
<1>5. sessions[s].keys # <<>>
  BY <1>1 DEF Passed
<1>6. Local(d)'
  BY <1>0, <1>3, <1>4, <1>5 DEF Local, Restoring, Installing, Unconfigured
<1>7. QED BY <1>2, <1>6

\* The keyset of the package is written, or the device stays without.
LEMMA Local_install_keyset ==
  ASSUME TypeOK, TypeOK', NEW d \in Dev, install_keyset(d), \A e \in Dev : Local(e)
  PROVE  \A e \in Dev : Local(e)'
<1>0. /\ op \in [Dev -> Ops] /\ keyring \in [Dev -> Keysets] /\ causes \subseteq causes'
      /\ op[d].at = "install_keyset"
      /\ UNCHANGED <<confirmed, run, sealed, early>>
  BY DEF TypeOK, install_keyset, Cause, pairVars
<1>1. \/ keyring' = [keyring EXCEPT ![d] = op[d].keys] /\ op' = [op EXCEPT ![d].at = "install_credential"]
      \/ keyring' \in {keyring, [keyring EXCEPT ![d] = op[d].keys]} /\ op' = [op EXCEPT ![d] = NoOp]
  BY DEF install_keyset, Written, WriteFailed, Next_
<1>2. ASSUME NEW e \in Dev, e # d PROVE Local(e)'
  BY <1>0, <1>1, <1>2, LocalFrame DEF Same
<1>3. confirmed[d] = 0 /\ op[d].keys # <<>>
  BY <1>0 DEF Local, Installing, InstallSteps
<1>4. Held(d)' /\ InHand(d)'
  BY <1>0, <1>3, UnconfirmedStep
<1>5. CASE op' = [op EXCEPT ![d] = NoOp]
  <2>1. Local(d)'
    BY <1>0, <1>4, <1>5, IdleStep DEF Local, NoOp
  <2>2. QED BY <1>2, <2>1
<1>6. CASE keyring' = [keyring EXCEPT ![d] = op[d].keys] /\ op' = [op EXCEPT ![d].at = "install_credential"]
  <2>1. op[d] \in [at : InstallSteps, session : Session, keys : Keysets, token : Nat]
    BY <1>0, OpKinds DEF InstallSteps
  <2>2. op'[d] = [op[d] EXCEPT !.at = "install_credential"]
    BY <1>0, <1>6
  <2>3. op'[d].at = "install_credential" /\ op'[d].keys = op[d].keys /\ keyring'[d] = op[d].keys
    BY <1>0, <1>6, <2>1, <2>2
  <2>4. Local(d)'
    BY <1>0, <1>3, <1>4, <2>3 DEF Local, Restoring, Installing
  <2>5. QED BY <1>2, <2>4
<1>7. QED BY <1>1, <1>5, <1>6

\* The keyset stays while the credential is written.
LEMMA Local_install_credential ==
  ASSUME TypeOK, TypeOK', NEW d \in Dev, install_credential(d), \A e \in Dev : Local(e)
  PROVE  \A e \in Dev : Local(e)'
<1>0. /\ op \in [Dev -> Ops] /\ keyring \in [Dev -> Keysets] /\ causes \subseteq causes'
      /\ op[d].at = "install_credential"
      /\ UNCHANGED <<confirmed, run, sealed, early>>
  BY DEF TypeOK, install_credential, Cause, pairVars
<1>1. \/ keyring' = keyring /\ op' = [op EXCEPT ![d].at = "install_version"]
      \/ keyring' \in {keyring, [keyring EXCEPT ![d] = <<>>]} /\ op' = [op EXCEPT ![d] = NoOp]
  BY DEF install_credential, Undone, Next_
<1>2. ASSUME NEW e \in Dev, e # d PROVE Local(e)'
  BY <1>0, <1>1, <1>2, LocalFrame DEF Same
<1>3. confirmed[d] = 0 /\ op[d].keys # <<>> /\ keyring[d] = op[d].keys
  BY <1>0 DEF Local, Installing, InstallSteps
<1>4. Held(d)' /\ InHand(d)'
  BY <1>0, <1>3, UnconfirmedStep
<1>5. CASE op' = [op EXCEPT ![d] = NoOp]
  <2>1. Local(d)'
    BY <1>0, <1>4, <1>5, IdleStep DEF Local, NoOp
  <2>2. QED BY <1>2, <2>1
<1>6. CASE keyring' = keyring /\ op' = [op EXCEPT ![d].at = "install_version"]
  <2>1. op[d] \in [at : InstallSteps, session : Session, keys : Keysets, token : Nat]
    BY <1>0, OpKinds DEF InstallSteps
  <2>2. op'[d] = [op[d] EXCEPT !.at = "install_version"]
    BY <1>0, <1>6
  <2>3. op'[d].at = "install_version" /\ op'[d].keys = op[d].keys
    BY <2>1, <2>2
  <2>4. Local(d)'
    BY <1>0, <1>3, <1>4, <1>6, <2>3 DEF Local, Restoring, Installing
  <2>5. QED BY <1>2, <2>4
<1>7. QED BY <1>1, <1>5, <1>6

\* The version confirmed is that of the keyset installed.
LEMMA Local_install_version ==
  ASSUME TypeOK, TypeOK', NEW d \in Dev, install_version(d), \A e \in Dev : Local(e)
  PROVE  \A e \in Dev : Local(e)'
<1>0. /\ op \in [Dev -> Ops] /\ keyring \in [Dev -> Keysets] /\ confirmed \in [Dev -> Nat]
      /\ causes \subseteq causes' /\ op[d].at = "install_version" /\ op' = [op EXCEPT ![d] = NoOp]
      /\ UNCHANGED <<run, sealed, early>>
  BY DEF TypeOK, install_version, Cause
<1>1. \/ keyring' = keyring /\ confirmed' = [confirmed EXCEPT ![d] = Len(op[d].keys)]
      \/ keyring' \in {keyring, [keyring EXCEPT ![d] = <<>>]} /\ confirmed' = confirmed
  BY DEF install_version, Undone
<1>2. ASSUME NEW e \in Dev, e # d PROVE Local(e)'
  BY <1>0, <1>1, <1>2, LocalFrame DEF Same
<1>3. confirmed[d] = 0 /\ op[d].keys # <<>> /\ keyring[d] = op[d].keys
  BY <1>0 DEF Local, Installing, InstallSteps
<1>4. Held(d)' /\ InHand(d)'
  <2>1. CASE keyring' = keyring /\ confirmed' = [confirmed EXCEPT ![d] = Len(op[d].keys)]
    BY <1>0, <1>3, <2>1, ConfirmStep
  <2>2. CASE confirmed' = confirmed
    BY <1>0, <1>3, <2>2, UnconfirmedStep
  <2>3. QED BY <1>1, <2>1, <2>2
<1>5. Local(d)'
  BY <1>0, <1>4, IdleStep DEF Local, NoOp
<1>6. QED BY <1>2, <1>5

\* A step of a synchronization run concerns what is in hand only.
LEMMA RunStep ==
  ASSUME NEW d \in Dev, UNCHANGED <<keyring, confirmed, op, causes>>, InHand(d)', Local(d),
         confirmed[d] # 0 \/ (run'[d].at = "idle" /\ sealed'[d] = sealed[d])
  PROVE  Local(d)'
BY DEF Local, Held, Restoring, Installing

\* A run goes on when every key of the key ring is confirmed.
LEMMA Local_run_status ==
  ASSUME TypeOK, TypeOK', NEW d \in Dev, run_status(d), \A e \in Dev : Local(e)
  PROVE  \A e \in Dev : Local(e)'
<1>0. /\ run \in [Dev -> Runs] /\ run' = [run EXCEPT ![d].at = "checked"] /\ Ready(d)
      /\ UNCHANGED <<keyring, confirmed, op, sealed, early, causes>>
  BY DEF TypeOK, run_status, keyVars
<1>1. ASSUME NEW e \in Dev, e # d PROVE Local(e)'
  BY <1>0, <1>1, LocalFrame DEF Same
<1>2. run'[d].at = "checked"
  BY <1>0 DEF Runs
<1>3. InHand(d)'
  BY <1>0, <1>2 DEF Local, InHand, Met, Ready
<1>4. Local(d)'
  BY <1>0, <1>3, RunStep DEF Ready
<1>5. QED BY <1>1, <1>4

\* A run loads confirmed keys, unless the key ring was written in between.
LEMMA Local_load_keyset ==
  ASSUME TypeOK, TypeOK', NEW d \in Dev, load_keyset(d), \A e \in Dev : Local(e)
  PROVE  \A e \in Dev : Local(e)'
<1>0. /\ run \in [Dev -> Runs] /\ run' = [run EXCEPT ![d] = [at |-> "loaded", keys |-> keyring[d]]]
      /\ run[d].at = "checked"
      /\ UNCHANGED <<keyring, confirmed, op, sealed, early, causes>>
  BY DEF TypeOK, load_keyset, keyVars
<1>1. ASSUME NEW e \in Dev, e # d PROVE Local(e)'
  BY <1>0, <1>1, LocalFrame DEF Same
<1>2. run'[d].at = "loaded" /\ run'[d].keys = keyring[d]
  BY <1>0
<1>3. confirmed[d] # 0 /\ confirmed[d] \in Nat
  BY <1>0, LocalTypes DEF Local, Held
<1>4. InHand(d)'
  BY <1>0, <1>2, <1>3 DEF Local, InHand, Met
<1>5. Local(d)'
  BY <1>0, <1>3, <1>4, RunStep
<1>6. QED BY <1>1, <1>5

\* What a run seals is sealed with the keys in its hand.
LEMMA Local_seal ==
  ASSUME TypeOK, TypeOK', NEW d \in Dev, seal(d), \A e \in Dev : Local(e)
  PROVE  \A e \in Dev : Local(e)'
<1>0. /\ run \in [Dev -> Runs] /\ sealed \in [Dev -> SUBSET Nat] /\ run[d].at = "loaded"
      /\ run' = [run EXCEPT ![d] = NoRun]
      /\ UNCHANGED <<keyring, confirmed, op, causes>>
  BY DEF TypeOK, seal, keyVars
<1>1. /\ sealed'[d] = sealed[d] \/ sealed'[d] = sealed[d] \cup {run[d].keys[Len(run[d].keys)]}
      /\ \A e \in Dev : e # d => sealed'[e] = sealed[e] /\ (e \in early' => e \in early)
      /\ d \in early' => d \in early \/ Len(run[d].keys) > confirmed[d]
  BY <1>0 DEF seal, Last
<1>2. ASSUME NEW e \in Dev, e # d PROVE Local(e)'
  BY <1>0, <1>1, <1>2, LocalFrame DEF Same
<1>3. confirmed[d] # 0 /\ confirmed[d] \in Nat /\ Len(run[d].keys) \in Nat
  BY <1>0, LocalTypes DEF Local, Held
<1>4. run'[d].at = "idle"
  BY <1>0 DEF NoRun
<1>5. CASE Met("race", d)
  <2>1. InHand(d)'
    BY <1>0, <1>5 DEF InHand, Met
  <2>2. Local(d)'
    BY <1>0, <1>3, <2>1, RunStep
  <2>3. QED BY <1>2, <2>2
<1>6. CASE ~Met("race", d)
  <2>1. /\ \A k \in sealed[d] : \E i \in 1 .. confirmed[d] : keyring[d][i] = k
        /\ Len(run[d].keys) \in 1 .. confirmed[d]
        /\ \A i \in 1 .. Len(run[d].keys) : run[d].keys[i] = keyring[d][i]
        /\ d \notin early
    BY <1>0, <1>6 DEF Local, InHand
  <2>2. \A k \in sealed'[d] : \E i \in 1 .. confirmed[d] : keyring[d][i] = k
    BY <1>1, <1>3, <2>1
  <2>3. d \notin early'
    BY <1>1, <1>3, <2>1
  <2>4. InHand(d)'
    BY <1>0, <1>4, <2>2, <2>3 DEF InHand
  <2>5. Local(d)'
    BY <1>0, <1>3, <2>4, RunStep
  <2>6. QED BY <1>2, <2>5
<1>7. QED BY <1>5, <1>6

\* The end of the application forgets the run and the operation.
LEMMA Local_restart ==
  ASSUME TypeOK, TypeOK', NEW d \in Dev, restart(d), \A e \in Dev : Local(e)
  PROVE  \A e \in Dev : Local(e)'
<1>0. /\ run \in [Dev -> Runs] /\ op \in [Dev -> Ops]
      /\ run' = [run EXCEPT ![d] = NoRun] /\ op' = [op EXCEPT ![d] = NoOp]
      /\ UNCHANGED <<keyring, confirmed, sealed, early, causes>>
  BY DEF TypeOK, restart, keyVars
<1>1. ASSUME NEW e \in Dev, e # d PROVE Local(e)'
  BY <1>0, <1>1, LocalFrame DEF Same
<1>2. run'[d].at = "idle" /\ op'[d].at = "idle"
  BY <1>0 DEF NoRun, NoOp
<1>3. Held(d)' /\ InHand(d)'
  BY <1>0, <1>2 DEF Local, Held, InHand, Met
<1>4. Local(d)'
  BY <1>2, <1>3, IdleStep DEF Local
<1>5. QED BY <1>1, <1>4

\* The other steps touch neither keys nor runs.
LEMMA Local_others ==
  ASSUME TypeOK, NEW d \in Dev, \A e \in Dev : Local(e),
         \/ set_sync_credential(d) \/ start_pairing(d) \/ join_pairing(d)
         \/ approve_pairing(d) \/ revoke_device(d) \/ \E s \in Session : expire(s)
  PROVE  \A e \in Dev : Local(e)'
<1>1. UNCHANGED <<keyring, confirmed, op, run, sealed, early>> /\ causes \subseteq causes'
  BY DEF set_sync_credential, start_pairing, join_pairing, approve_pairing, revoke_device, expire,
         Cause, keyVars
<1>2. QED BY <1>1, LocalFrame DEF Same

\* Every step keeps the keys of every device.
LEMMA NextLocal ==
  ASSUME KeysInv, TypeOK', Next
  PROVE  \A e \in Dev : Local(e)'
<1>0. /\ TypeOK /\ <<>> \notin material /\ \A e \in Dev : Local(e)
      /\ \A s \in Session : Passed(s)
  BY DEF KeysInv
<1>1. CASE \E s \in Session : expire(s)
  <2>1. UNCHANGED <<keyring, confirmed, op, run, sealed, early, causes>>
    BY <1>1 DEF expire, keyVars
  <2>2. QED BY <1>0, <2>1, LocalFrame DEF Same
<1>2. ASSUME NEW d \in Dev,
        \/ begin_e2ee_setup(d) \/ begin_e2ee_rotation(d) \/ confirm_e2ee_setup(d)
        \/ restore_e2ee(d) \/ restore_confirm(d) \/ discard_e2ee_setup(d)
        \/ set_sync_credential(d) \/ start_pairing(d) \/ join_pairing(d)
      PROVE \A e \in Dev : Local(e)'
  BY <1>0, <1>2, Local_begin_e2ee_setup, Local_begin_e2ee_rotation, Local_confirm_e2ee_setup,
     Local_restore_e2ee, Local_restore_confirm, Local_discard_e2ee_setup, Local_others
<1>3. ASSUME NEW d \in Dev,
        \/ approve_pairing(d) \/ finish_pairing(d) \/ install_keyset(d)
        \/ install_credential(d) \/ install_version(d) \/ revoke_device(d)
        \/ run_status(d) \/ load_keyset(d) \/ seal(d) \/ restart(d)
      PROVE \A e \in Dev : Local(e)'
  BY <1>0, <1>3, Local_finish_pairing, Local_install_keyset, Local_install_credential,
     Local_install_version, Local_run_status, Local_load_keyset, Local_seal, Local_restart, Local_others
<1>4. QED BY <1>1, <1>2, <1>3 DEF Next

\* Recovery material always holds a key.
LEMMA MaterialStep ==
  ASSUME TypeOK, Next, <<>> \notin material
  PROVE  <<>> \notin material'
<1>1. CASE material' = material
  BY <1>1
<1>2. ASSUME NEW d \in Dev, begin_e2ee_setup(d) \/ begin_e2ee_rotation(d)
      PROVE  <<>> \notin material'
  <2>1. keyring[d] \in Keysets /\ made \in Nat
    BY DEF TypeOK
  <2>2. <<made + 1>> # <<>>
    BY <2>1, KeysetFacts
  <2>3. rotate(keyring[d]) # <<>>
    <3>1. rotate(keyring[d]) \in Keysets /\ Len(rotate(keyring[d])) = Len(keyring[d]) + 1 /\ Len(keyring[d]) \in Nat
      BY <2>1, Rotated, KeysetFacts
    <3>2. QED BY <3>1, KeysetFacts
  <2>4. \/ material' = material
        \/ material' = material \cup {<<made + 1>>}
        \/ material' = material \cup {keyring[d]} /\ keyring[d] # <<>>
        \/ material' = material \cup {rotate(keyring[d])}
    BY <1>2 DEF begin_e2ee_setup, begin_e2ee_rotation
  <2>5. QED BY <2>2, <2>3, <2>4
<1>3. CASE \E s \in Session : expire(s)
  BY <1>3 DEF expire
<1>4. ASSUME NEW d \in Dev,
        \/ confirm_e2ee_setup(d)
        \/ restore_e2ee(d) \/ restore_confirm(d) \/ discard_e2ee_setup(d)
        \/ set_sync_credential(d) \/ start_pairing(d) \/ join_pairing(d)
        \/ approve_pairing(d) \/ finish_pairing(d) \/ install_keyset(d)
        \/ install_credential(d) \/ install_version(d) \/ revoke_device(d)
        \/ run_status(d) \/ load_keyset(d) \/ seal(d) \/ restart(d)
      PROVE <<>> \notin material'
  BY <1>4 DEF confirm_e2ee_setup, restore_e2ee, restore_confirm, discard_e2ee_setup,
     set_sync_credential, start_pairing, join_pairing, approve_pairing, finish_pairing,
     install_keyset, install_credential, install_version, revoke_device, run_status, load_keyset,
     seal, restart
<1>5. QED BY <1>2, <1>3, <1>4 DEF Next

-----------------------------------------------------------------------------
(* Confirmed versions and credentials.                                     *)

\* A device that has confirmed a keyset always has one confirmed.
LEMMA ConfirmedStays ==
  ASSUME KeysInv, Next, NEW e \in Dev, confirmed[e] # 0
  PROVE  confirmed'[e] # 0
<1>1. /\ TypeOK /\ \A x \in Dev : Local(x)
  BY DEF KeysInv
<1>2. CASE confirmed' = confirmed
  BY <1>2
<1>3. ASSUME NEW d \in Dev, confirm_e2ee_setup(d) \/ restore_confirm(d)
      PROVE  confirmed'[e] # 0
  <2>1. confirmed \in [Dev -> Nat] /\ keyring[d] \in Keysets
    BY <1>1 DEF TypeOK
  <2>2. keyring[d] # <<>>
    BY <1>1, <1>3 DEF confirm_e2ee_setup, restore_confirm, Local, Restoring
  <2>3. Len(keyring[d]) # 0
    BY <2>1, <2>2, KeysetFacts
  <2>4. confirmed' = confirmed \/ confirmed' = [confirmed EXCEPT ![d] = Len(keyring[d])]
    BY <1>3 DEF confirm_e2ee_setup, restore_confirm
  <2>5. QED BY <2>1, <2>3, <2>4
<1>4. ASSUME NEW d \in Dev, install_version(d)
      PROVE  confirmed'[e] # 0
  <2>1. confirmed \in [Dev -> Nat] /\ op \in [Dev -> Ops] /\ op[d].at \in InstallSteps
    BY <1>1, <1>4 DEF TypeOK, install_version, InstallSteps
  <2>2. op[d].keys \in Keysets /\ op[d].keys # <<>>
    BY <1>1, <2>1, OpFields DEF Local, Installing
  <2>3. Len(op[d].keys) # 0
    BY <2>2, KeysetFacts
  <2>4. confirmed' = confirmed \/ confirmed' = [confirmed EXCEPT ![d] = Len(op[d].keys)]
    BY <1>4 DEF install_version
  <2>5. QED BY <2>1, <2>3, <2>4
<1>5. ASSUME NEW d \in Dev,
        \/ begin_e2ee_setup(d) \/ begin_e2ee_rotation(d)
        \/ restore_e2ee(d) \/ discard_e2ee_setup(d)
        \/ set_sync_credential(d) \/ start_pairing(d) \/ join_pairing(d)
        \/ approve_pairing(d) \/ finish_pairing(d) \/ install_keyset(d)
        \/ install_credential(d) \/ revoke_device(d)
        \/ run_status(d) \/ load_keyset(d) \/ seal(d) \/ restart(d)
      PROVE confirmed' = confirmed
  BY <1>5 DEF begin_e2ee_setup, begin_e2ee_rotation, restore_e2ee, discard_e2ee_setup,
     set_sync_credential, start_pairing, join_pairing, approve_pairing, finish_pairing,
     install_keyset, install_credential, revoke_device, run_status, load_keyset,
     seal, restart, keyVars
<1>6. CASE \E s \in Session : expire(s)
  BY <1>6 DEF expire, keyVars
<1>7. QED BY <1>2, <1>3, <1>4, <1>5, <1>6 DEF Next

\* Asking the gateway changes the credential it knows a device by to the one of
\* its configuration at most.
LEMMA SeenStays ==
  ASSUME TypeOK, NEW d \in Dev, Authorized(d), NEW e \in Dev
  PROVE  Seen(d)[e] \in {registered[e], Manual}
<1>1. registered \in [Dev -> Int]
  BY DEF TypeOK
<1>2. QED BY <1>1 DEF Seen, Authorized

\* The same of every step, of a device the gateway knows.
LEMMA RegisteredStays ==
  ASSUME TypeOK, Next, NEW e \in Dev, registered[e] # None
  PROVE  registered'[e] \in {registered[e], Manual}
<1>1. CASE registered' = registered
  BY <1>1
<1>2. ASSUME NEW d \in Dev, start_pairing(d) \/ revoke_device(d)
      PROVE  registered'[e] \in {registered[e], Manual}
  BY <1>2, SeenStays DEF start_pairing, revoke_device
<1>3. ASSUME NEW d \in Dev, approve_pairing(d)
      PROVE  registered'[e] \in {registered[e], Manual}
  <2>1. PICK s \in Session : \E t \in Prepared(d, s) :
           /\ Authorized(d)
           /\ \/ registered' = Seen(d)
              \/ /\ registered[sessions[s].device] = None
                 /\ registered' = [Seen(d) EXCEPT ![sessions[s].device] = t.token]
    BY <1>3, Approval
  <2>2. registered \in [Dev -> Int]
    BY DEF TypeOK
  <2>3. registered'[e] = Seen(d)[e]
    BY <2>1, <2>2 DEF Seen
  <2>4. QED BY <2>1, <2>3, SeenStays
<1>4. ASSUME NEW d \in Dev,
        \/ begin_e2ee_setup(d) \/ begin_e2ee_rotation(d) \/ confirm_e2ee_setup(d)
        \/ restore_e2ee(d) \/ restore_confirm(d) \/ discard_e2ee_setup(d)
        \/ set_sync_credential(d) \/ join_pairing(d) \/ finish_pairing(d) \/ install_keyset(d)
        \/ install_credential(d) \/ install_version(d)
        \/ run_status(d) \/ load_keyset(d) \/ seal(d) \/ restart(d)
      PROVE registered' = registered
  BY <1>4 DEF begin_e2ee_setup, begin_e2ee_rotation, confirm_e2ee_setup, restore_e2ee,
     restore_confirm, discard_e2ee_setup, set_sync_credential, join_pairing, finish_pairing,
     install_keyset, install_credential, install_version, run_status, load_keyset,
     seal, restart, pairVars
<1>5. CASE \E s \in Session : expire(s)
  BY <1>5 DEF expire
<1>6. QED BY <1>1, <1>2, <1>3, <1>4, <1>5 DEF Next

\* What keeps the credential of a device known.
LEMMA KnownFrame ==
  ASSUME TypeOK, NEW e \in Dev, Known(e),
         registered[e] # None => registered'[e] \in {registered[e], Manual},
         credential'[e] = credential[e] \/ ~(credential'[e] > None),
         op'[e].at \in InstallSteps => op[e].at \in InstallSteps /\ op'[e].token = op[e].token
  PROVE  Known(e)'
<1>1. credential[e] \in Int /\ registered[e] \in Int /\ op \in [Dev -> Ops]
  BY DEF TypeOK
<1>2. op[e].at \in InstallSteps => op[e].token \in Nat
  BY <1>1, OpFields
<1>3. ASSUME credential'[e] > None
      PROVE  registered'[e] \in {credential'[e], Manual}
  <2>1. credential'[e] = credential[e]
    BY <1>3
  <2>2. credential[e] > 0 /\ registered[e] \in {credential[e], Manual}
    BY <1>3, <2>1 DEF Known, None
  <2>3. registered[e] # None
    BY <1>1, <2>2 DEF None, Manual
  <2>4. QED BY <2>1, <2>2, <2>3
<1>4. ASSUME op'[e].at \in InstallSteps
      PROVE  op'[e].token > 0 /\ registered'[e] \in {op'[e].token, Manual}
  <2>1. op[e].at \in InstallSteps /\ op'[e].token = op[e].token
    BY <1>4
  <2>2. op[e].token > 0 /\ registered[e] \in {op[e].token, Manual}
    BY <2>1 DEF Known
  <2>3. registered[e] # None
    BY <1>2, <2>1, <2>2 DEF None, Manual
  <2>4. QED BY <2>1, <2>2, <2>3
<1>5. QED BY <1>3, <1>4 DEF Known

\* The operation that goes on to its next step is the same.
LEMMA NextStep ==
  ASSUME TypeOK, NEW d \in Dev, op[d].at \in InstallSteps, NEW step, op' = [op EXCEPT ![d].at = step]
  PROVE  /\ op'[d].at = step /\ op'[d].token = op[d].token
         /\ op'[d].keys = op[d].keys /\ op'[d].session = op[d].session
         /\ \A e \in Dev : e # d => op'[e] = op[e]
<1>1. op \in [Dev -> Ops]
  BY DEF TypeOK
<1>2. op[d] \in [at : InstallSteps, session : Session, keys : Keysets, token : Nat]
  BY <1>1, OpKinds
<1>3. op'[d] = [op[d] EXCEPT !.at = step] /\ \A e \in Dev : e # d => op'[e] = op[e]
  BY <1>1
<1>4. QED BY <1>2, <1>3

\* The credentials of a device, in every step.
LEMMA NextKnown ==
  ASSUME KeysInv, Next, NEW e \in Dev
  PROVE  Known(e)'
<1>0. /\ TypeOK /\ Known(e)
      /\ registered[e] # None => registered'[e] \in {registered[e], Manual}
      /\ op \in [Dev -> Ops] /\ credential \in [Dev -> Int]
  <2>1. TypeOK /\ Known(e)
    BY DEF KeysInv
  <2>2. op \in [Dev -> Ops] /\ credential \in [Dev -> Int]
    BY <2>1 DEF TypeOK
  <2>3. QED BY <2>1, <2>2, RegisteredStays
<1>1. CASE op' = op /\ credential' = credential
  BY <1>0, <1>1, KnownFrame
<1>2. ASSUME NEW d \in Dev, set_sync_credential(d)
      PROVE  Known(e)'
  <2>1. credential'[e] = credential[e] \/ ~(credential'[e] > None)
    BY <1>0, <1>2 DEF set_sync_credential, None, Manual
  <2>2. op' = op
    BY <1>2 DEF set_sync_credential
  <2>3. QED BY <1>0, <2>1, <2>2, KnownFrame
<1>3. ASSUME NEW d \in Dev, restore_e2ee(d) \/ restore_confirm(d) \/ restart(d)
      PROVE  Known(e)'
  <2>1. credential' = credential
    BY <1>3 DEF restore_e2ee, restore_confirm, restart, keyVars
  <2>2. \/ op' = op \/ op' = [op EXCEPT ![d] = NoOp]
        \/ op' = [op EXCEPT ![d] = [at |-> "restored", old |-> keyring[d]]]
    BY <1>3 DEF restore_e2ee, restore_confirm, restart
  <2>3. op'[e] = op[e] \/ op'[e].at \in {"idle", "restored"}
    BY <1>0, <2>2 DEF NoOp
  <2>4. QED BY <1>0, <2>1, <2>3, KnownFrame DEF InstallSteps
<1>4. ASSUME NEW d \in Dev, finish_pairing(d)
      PROVE  Known(e)'
  <2>1. /\ credential' = credential /\ registered' = registered
    BY <1>4 DEF finish_pairing, keyVars, pairVars
  <2>2. PICK s \in Session :
          /\ responder[s] = d /\ sessions[s].status = "ready"
          /\ op' = [op EXCEPT ![d] = [at |-> "install_keyset", session |-> s,
                                      keys |-> sessions[s].keys, token |-> sessions[s].token]]
    BY <1>4 DEF finish_pairing
  <2>3. CASE e # d
    <3>1. op'[e] = op[e]
      BY <1>0, <2>2, <2>3
    <3>2. QED BY <1>0, <2>1, <3>1, KnownFrame
  <2>4. CASE e = d
    <3>1. Passed(s) /\ d # ""
      BY KeysAssumption DEF KeysInv
    <3>2. sessions[s].token > 0 /\ registered[d] \in {sessions[s].token, Manual}
      BY <2>2, <3>1 DEF Passed
    <3>3. op'[d].token = sessions[s].token
      BY <1>0, <2>2
    <3>4. QED BY <1>0, <2>1, <2>4, <3>2, <3>3 DEF Known
  <2>5. QED BY <2>3, <2>4
<1>5. ASSUME NEW d \in Dev, install_keyset(d)
      PROVE  Known(e)'
  <2>1. credential' = credential /\ op[d].at \in InstallSteps
    BY <1>5 DEF install_keyset, InstallSteps
  <2>2. CASE op' = [op EXCEPT ![d] = NoOp]
    <3>1. op'[e] = op[e] \/ op'[e].at = "idle"
      BY <1>0, <2>2 DEF NoOp
    <3>2. QED BY <1>0, <2>1, <3>1, KnownFrame DEF InstallSteps
  <2>3. CASE op' = [op EXCEPT ![d].at = "install_credential"]
    <3>1. op'[e] = op[e] \/ (e = d /\ op'[e].token = op[e].token)
      BY <1>0, <2>1, <2>3, NextStep
    <3>2. QED BY <1>0, <2>1, <3>1, KnownFrame
  <2>4. QED BY <1>5, <2>2, <2>3 DEF install_keyset, Next_
<1>6. ASSUME NEW d \in Dev, install_credential(d)
      PROVE  Known(e)'
  <2>1. /\ registered' = registered /\ op[d].at \in InstallSteps
        /\ credential' \in {credential, [credential EXCEPT ![d] = op[d].token]}
    BY <1>6 DEF install_credential, InstallSteps, pairVars
  <2>2. op'[e] = op[e] \/ op'[e].at = "idle" \/ (e = d /\ op'[e].token = op[e].token)
    <3>1. CASE op' = [op EXCEPT ![d] = NoOp]
      BY <1>0, <3>1 DEF NoOp
    <3>2. CASE op' = [op EXCEPT ![d].at = "install_version"]
      BY <1>0, <2>1, <3>2, NextStep
    <3>3. QED BY <1>6, <3>1, <3>2 DEF install_credential, Next_
  <2>3. CASE credential'[e] = credential[e]
    BY <1>0, <2>1, <2>2, <2>3, KnownFrame DEF InstallSteps
  <2>4. CASE credential'[e] # credential[e]
    <3>1. e = d /\ credential'[e] = op[e].token
      BY <1>0, <2>1, <2>4
    <3>2. op[e].token > 0 /\ registered[e] \in {op[e].token, Manual}
      BY <1>0, <2>1, <3>1 DEF Known
    <3>3. QED BY <2>1, <2>2, <3>1, <3>2 DEF Known, InstallSteps
  <2>5. QED BY <2>3, <2>4
<1>7. ASSUME NEW d \in Dev, install_version(d)
      PROVE  Known(e)'
  <2>1. /\ op' = [op EXCEPT ![d] = NoOp]
        /\ credential' \in {credential, [credential EXCEPT ![d] = None]}
    BY <1>7 DEF install_version, Undone
  <2>2. op'[e] = op[e] \/ op'[e].at = "idle"
    BY <1>0, <2>1 DEF NoOp
  <2>3. credential'[e] = credential[e] \/ ~(credential'[e] > None)
    BY <1>0, <2>1 DEF None
  <2>4. QED BY <1>0, <2>2, <2>3, KnownFrame DEF InstallSteps
<1>8. ASSUME NEW d \in Dev,
        \/ begin_e2ee_setup(d) \/ begin_e2ee_rotation(d) \/ confirm_e2ee_setup(d)
        \/ discard_e2ee_setup(d) \/ start_pairing(d) \/ join_pairing(d)
        \/ approve_pairing(d) \/ revoke_device(d)
        \/ run_status(d) \/ load_keyset(d) \/ seal(d)
      PROVE op' = op /\ credential' = credential
  BY <1>8 DEF begin_e2ee_setup, begin_e2ee_rotation, confirm_e2ee_setup, discard_e2ee_setup,
     start_pairing, join_pairing, approve_pairing, revoke_device, run_status, load_keyset, seal, keyVars
<1>9. CASE \E s \in Session : expire(s)
  <2>1. op' = op /\ credential' = credential
    BY <1>9 DEF expire, keyVars
  <2>2. QED BY <1>1, <2>1
<1>10. QED BY <1>1, <1>2, <1>3, <1>4, <1>5, <1>6, <1>7, <1>8, <1>9 DEF Next

-----------------------------------------------------------------------------
(* Pairing sessions.                                                       *)

\* A credential received by pairing is neither none nor the configured one.
LEMMA TokensDiffer ==
  /\ Manual # None
  /\ \A n \in Nat : n > 0 => n # None /\ n # Manual
BY DEF None, Manual

\* What RegisteredStays and ConfirmedStays say, of all devices.
RegisteredKept == \A e \in Dev : registered[e] # None => registered'[e] \in {registered[e], Manual}
ConfirmedKept == \A e \in Dev : confirmed[e] # 0 => confirmed'[e] # 0

\* What keeps a session in agreement: its initiator may forget the transfer and
\* its responder the session.
LEMMA PassedFrame ==
  ASSUME TypeOK, NEW s \in Session, Passed(s), sessions'[s] = sessions[s],
         initiator'[s] = initiator[s] \/ initiator'[s].at = "none",
         responder'[s] = responder[s] \/ responder'[s] = "",
         RegisteredKept, ConfirmedKept
  PROVE  Passed(s)'
<1>1. sessions[s] \in Rows
  BY DEF TypeOK
<1>2. sessions[s].by \in Dev \cup {""} /\ sessions[s].token \in Nat
  BY <1>1, RowUpdates
<1>3. ASSUME sessions[s].status = "ready"
      PROVE  registered'[sessions[s].device] \in {sessions[s].token, Manual}
  <2>1. /\ sessions[s].device \in Dev /\ sessions[s].token > 0
        /\ registered[sessions[s].device] \in {sessions[s].token, Manual}
    BY <1>3 DEF Passed
  <2>2. sessions[s].token # None /\ Manual # None
    <3>1. sessions[s].token \in Nat /\ sessions[s].token > 0
      BY <1>2, <2>1
    <3>2. QED BY <3>1, TokensDiffer
  <2>3. registered[sessions[s].device] # None
    BY <2>1, <2>2
  <2>4. QED BY <2>1, <2>3 DEF RegisteredKept
<1>4. initiator'[s].at = "exchange" /\ sessions'[s].by # "" => confirmed'[sessions'[s].by] # 0
  BY <1>2 DEF Passed, ConfirmedKept
<1>5. QED BY <1>3, <1>4 DEF Passed

\* A session that has ended.
LEMMA PassedEnd ==
  ASSUME TypeOK, NEW s \in Session, Passed(s), sessions'[s].status \in {"gone", "consumed"},
         sessions'[s].by \in {sessions[s].by, ""},
         initiator'[s] = initiator[s] \/ initiator'[s].at = "none",
         ConfirmedKept
  PROVE  Passed(s)'
<1>1. sessions[s] \in Rows
  BY DEF TypeOK
<1>2. sessions[s].by \in Dev \cup {""}
  BY <1>1, RowUpdates
<1>3. initiator'[s].at = "exchange" /\ sessions'[s].by # "" => confirmed'[sessions'[s].by] # 0
  BY <1>2 DEF Passed, ConfirmedKept
<1>4. QED BY <1>3 DEF Passed

\* The transfer that an approval passes on holds a keyset and a credential.
LEMMA TransferSafe ==
  ASSUME KeysInv, NEW d \in Dev, NEW s \in Session, sessions[s].by = d, NEW t \in Prepared(d, s)
  PROVE  /\ t.at = "prepared" /\ t.keys \in Keysets /\ t.keys # <<>> /\ t.token \in Nat /\ t.token > 0
         /\ sessions[s].status = "ready" => t = initiator[s]
<1>0. TypeOK
  BY DEF KeysInv
<1>1. Passed(s) /\ Local(d) /\ d # ""
  BY KeysAssumption DEF KeysInv
<1>2. /\ t \in Transfers /\ t.at = "prepared"
      /\ \/ initiator[s].at = "prepared" /\ t = initiator[s]
         \/ /\ initiator[s].at = "exchange" /\ sessions[s].status = "joined"
            /\ t.keys = keyring[d] /\ t.token = made + 1
  BY <1>0, PreparedFacts
<1>3. t.keys \in Keysets /\ t.token \in Nat
  BY <1>2, TransferUpdates
<1>4. CASE initiator[s].at = "prepared" /\ t = initiator[s]
  BY <1>1, <1>2, <1>3, <1>4 DEF Passed
<1>5. CASE /\ initiator[s].at = "exchange" /\ sessions[s].status = "joined"
           /\ t.keys = keyring[d] /\ t.token = made + 1
  <2>1. confirmed[d] # 0
    BY <1>1, <1>5 DEF Passed
  <2>2. keyring[d] # <<>>
    <3>1. /\ Len(keyring[d]) \in Nat /\ confirmed[d] \in Nat
          /\ Len(keyring[d]) = 0 <=> keyring[d] = <<>>
      BY <1>0, LocalTypes
    <3>2. confirmed[d] <= Len(keyring[d])
      BY <1>1 DEF Local, Held
    <3>3. QED BY <2>1, <3>1, <3>2
  <2>3. made \in Nat
    BY <1>0 DEF TypeOK
  <2>4. QED BY <1>2, <1>3, <1>5, <2>2, <2>3
<1>6. QED BY <1>2, <1>4, <1>5

\* The sessions of the gateway, in every step.
LEMMA NextPassed ==
  ASSUME KeysInv, Next, NEW s \in Session
  PROVE  Passed(s)'
<1>0. /\ TypeOK /\ Passed(s) /\ sessions \in [Session -> Rows]
      /\ initiator \in [Session -> Transfers] /\ responder \in [Session -> Dev \cup {""}]
      /\ RegisteredKept /\ ConfirmedKept
  <2>1. TypeOK /\ Passed(s)
    BY DEF KeysInv
  <2>2. /\ sessions \in [Session -> Rows] /\ initiator \in [Session -> Transfers]
        /\ responder \in [Session -> Dev \cup {""}]
    BY <2>1 DEF TypeOK
  <2>3. QED BY <2>1, <2>2, RegisteredStays, ConfirmedStays DEF RegisteredKept, ConfirmedKept
<1>1. CASE UNCHANGED <<sessions, initiator, responder>>
  BY <1>0, <1>1, PassedFrame
<1>2. ASSUME NEW d \in Dev, start_pairing(d)
      PROVE  Passed(s)'
  <2>1. PICK x \in Session :
          /\ sessions[x].status = "none"
          /\ sessions' = [sessions EXCEPT ![x].status = "open", ![x].by = d]
          /\ initiator' = initiator \/ initiator' = [initiator EXCEPT ![x].at = "exchange"]
    BY <1>2 DEF start_pairing
  <2>2. responder' = responder /\ confirmed[d] # 0
    BY <1>2 DEF start_pairing, Ready
  <2>3. CASE s # x
    <3>1. sessions'[s] = sessions[s] /\ initiator'[s] = initiator[s]
      BY <1>0, <2>1, <2>3
    <3>2. QED BY <1>0, <2>2, <3>1, PassedFrame
  <2>4. CASE s = x
    <3>1. sessions'[s].status = "open" /\ sessions'[s].by = d
      <4>1. sessions[s] \in Rows /\ sessions'[s] = [sessions[s] EXCEPT !.status = "open", !.by = d]
        BY <1>0, <2>1, <2>4
      <4>2. QED BY <4>1 DEF Rows
    <3>2. /\ initiator'[s].keys = initiator[s].keys /\ initiator'[s].token = initiator[s].token
          /\ initiator'[s].at \in {initiator[s].at, "exchange"}
      <4>1. /\ initiator[s] \in Transfers
            /\ initiator'[s] = initiator[s] \/ initiator'[s] = [initiator[s] EXCEPT !.at = "exchange"]
        BY <1>0, <2>1, <2>4
      <4>2. QED BY <4>1 DEF Transfers
    <3>3. responder[s] = ""
      BY <1>0, <2>1, <2>4 DEF Passed
    <3>4. confirmed'[d] # 0
      BY <1>0, <2>2 DEF ConfirmedKept
    <3>5. initiator'[s].at = "prepared" => initiator'[s].keys # <<>> /\ initiator'[s].token > 0
      BY <1>0, <3>2 DEF Passed
    <3>6. QED BY <2>2, <3>1, <3>3, <3>4, <3>5 DEF Passed
  <2>5. QED BY <2>3, <2>4
<1>3. ASSUME NEW d \in Dev, join_pairing(d)
      PROVE  Passed(s)'
  <2>1. PICK x \in Session :
          /\ sessions[x].status = "open"
          /\ sessions' = [sessions EXCEPT ![x].status = "joined", ![x].device = d]
          /\ responder' = responder \/ responder' = [responder EXCEPT ![x] = d]
    BY <1>3 DEF join_pairing
  <2>2. initiator' = initiator
    BY <1>3 DEF join_pairing
  <2>3. CASE s # x
    <3>1. sessions'[s] = sessions[s] /\ responder'[s] = responder[s]
      BY <1>0, <2>1, <2>3
    <3>2. QED BY <1>0, <2>2, <3>1, PassedFrame
  <2>4. CASE s = x
    <3>0. sessions'[s] = [sessions[s] EXCEPT !.status = "joined", !.device = d]
      BY <1>0, <2>1, <2>4 DEF Rows
    <3>1. sessions'[s].status = "joined" /\ sessions'[s].by = sessions[s].by /\ sessions'[s].device = d
      <4>1. sessions[s] \in Rows
        BY <1>0
      <4>2. QED BY <4>1, <3>0 DEF Rows
    <3>2. responder'[s] \in {"", d}
      BY <1>0, <2>1, <2>4 DEF Passed
    <3>3. sessions[s].by \in Dev \cup {""}
      BY <1>0, RowUpdates
    <3>4. initiator[s].at = "exchange" /\ sessions[s].by # "" => confirmed'[sessions[s].by] # 0
      BY <1>0, <3>3 DEF Passed, ConfirmedKept
    <3>5. initiator[s].at = "prepared" => initiator[s].keys # <<>> /\ initiator[s].token > 0
      BY <1>0 DEF Passed
    <3>6. QED BY <2>2, <3>1, <3>2, <3>4, <3>5 DEF Passed
  <2>5. QED BY <2>3, <2>4
<1>4. ASSUME NEW d \in Dev, approve_pairing(d)
      PROVE  Passed(s)'
  <2>0. PICK x \in Session : \E t \in Prepared(d, x) :
           /\ sessions[x].by = d /\ Authorized(d)
           /\ made' \in {made, made + 1}
           /\ initiator' \in {[initiator EXCEPT ![x] = NoState], [initiator EXCEPT ![x] = t]}
           /\ \/ sessions' = sessions /\ registered' = Seen(d)
              \/ /\ sessions[x].status = "joined" /\ registered[sessions[x].device] = None
                 /\ sessions' = MadeReady(x, t)
                 /\ registered' = [Seen(d) EXCEPT ![sessions[x].device] = t.token]
    BY <1>0, <1>4, Approval
  <2>1. PICK t \in Prepared(d, x) :
           /\ sessions[x].by = d
           /\ initiator' \in {[initiator EXCEPT ![x] = NoState], [initiator EXCEPT ![x] = t]}
           /\ \/ sessions' = sessions /\ registered' = Seen(d)
              \/ /\ sessions[x].status = "joined" /\ registered[sessions[x].device] = None
                 /\ sessions' = MadeReady(x, t)
                 /\ registered' = [Seen(d) EXCEPT ![sessions[x].device] = t.token]
    BY <2>0
  <2>2. responder' = responder
    BY <1>4 DEF approve_pairing
  <2>3. /\ t.at = "prepared" /\ t.keys \in Keysets /\ t.keys # <<>> /\ t.token \in Nat /\ t.token > 0
        /\ sessions[x].status = "ready" => t = initiator[x]
    BY <2>1, TransferSafe
  <2>4. CASE s # x
    <3>1. sessions'[s] = sessions[s] /\ initiator'[s] = initiator[s]
      BY <1>0, <2>1, <2>4 DEF MadeReady
    <3>2. QED BY <1>0, <2>2, <3>1, PassedFrame
  <2>5. CASE s = x /\ sessions' = sessions
    <3>1. initiator'[s] = t \/ initiator'[s].at = "none"
      <4>1. initiator'[s] = t \/ initiator'[s] = NoState
        BY <1>0, <2>1, <2>5
      <4>2. QED BY <4>1 DEF NoState
    <3>2. CASE initiator'[s].at = "none"
      BY <1>0, <2>2, <2>5, <3>2, PassedFrame
    <3>3. CASE initiator'[s] = t /\ sessions[s].status = "ready"
      <4>1. initiator'[s] = initiator[s]
        BY <2>3, <2>5, <3>3
      <4>2. QED BY <1>0, <2>2, <2>5, <4>1, PassedFrame
    <3>4. CASE initiator'[s] = t /\ sessions[s].status # "ready"
      BY <1>0, <2>2, <2>3, <2>5, <3>4 DEF Passed
    <3>5. QED BY <3>1, <3>2, <3>3, <3>4
  <2>6. CASE /\ s = x /\ sessions[x].status = "joined" /\ sessions' = MadeReady(x, t)
             /\ registered' = [Seen(d) EXCEPT ![sessions[x].device] = t.token]
    <3>1. sessions[s].device \in Dev
      BY <1>0, <2>6 DEF Passed
    <3>2. /\ sessions'[s].status = "ready" /\ sessions'[s].keys = t.keys /\ sessions'[s].token = t.token
          /\ sessions'[s].by = sessions[s].by /\ sessions'[s].device = sessions[s].device
      BY <1>0, <2>6 DEF MadeReady, Rows
    <3>3. registered'[sessions[s].device] = t.token
      <4>1. registered \in [Dev -> Int]
        BY <1>0 DEF TypeOK
      <4>2. QED BY <2>6, <3>1, <4>1 DEF Seen
    <3>4. initiator'[s] = t \/ initiator'[s].at = "none"
      <4>1. initiator'[s] = t \/ initiator'[s] = NoState
        BY <1>0, <2>1, <2>6
      <4>2. QED BY <4>1 DEF NoState
    <3>5. responder[s] # "" => sessions[s].device = responder[s]
      BY <1>0, <2>6 DEF Passed
    <3>6. QED BY <2>2, <2>3, <3>1, <3>2, <3>3, <3>4, <3>5 DEF Passed
  <2>7. QED BY <2>1, <2>4, <2>5, <2>6
<1>5. ASSUME NEW d \in Dev, install_version(d)
      PROVE  Passed(s)'
  <2>1. op \in [Dev -> Ops] /\ op[d].at \in InstallSteps
    BY <1>0, <1>5 DEF TypeOK, install_version, InstallSteps
  <2>2. op[d].session \in Session /\ initiator' = initiator
    BY <1>5, <2>1, OpFields DEF install_version
  <2>3. /\ \/ sessions' = [sessions EXCEPT ![op[d].session].status = "consumed"]
           \/ sessions' = sessions
        /\ responder' = responder \/ responder' = [responder EXCEPT ![op[d].session] = ""]
    BY <1>5 DEF install_version
  <2>4. responder'[s] = responder[s] \/ responder'[s] = ""
    BY <1>0, <2>2, <2>3
  <2>5. CASE sessions'[s] = sessions[s]
    BY <1>0, <2>2, <2>4, <2>5, PassedFrame
  <2>6. CASE sessions'[s] # sessions[s]
    <3>1. sessions'[s] = [sessions[s] EXCEPT !.status = "consumed"]
      BY <1>0, <2>2, <2>3, <2>6
    <3>2. sessions'[s].status = "consumed" /\ sessions'[s].by = sessions[s].by
      <4>1. sessions[s] \in Rows
        BY <1>0
      <4>2. QED BY <4>1, <3>1 DEF Rows
    <3>3. QED BY <1>0, <2>2, <3>2, PassedEnd
  <2>7. QED BY <2>5, <2>6
<1>6. ASSUME NEW d \in Dev, revoke_device(d)
      PROVE  Passed(s)'
  <2>1. PICK e \in Dev :
          sessions' = [x \in Session |->
              IF e \in {sessions[x].by, sessions[x].device}
              THEN [NoSession EXCEPT !.status = "gone"] ELSE sessions[x]]
    BY <1>6 DEF revoke_device
  <2>2. initiator' = initiator /\ responder' = responder
    BY <1>6 DEF revoke_device
  <2>3. \/ sessions'[s] = sessions[s]
        \/ sessions'[s].status = "gone" /\ sessions'[s].by = ""
    BY <2>1 DEF NoSession
  <2>4. QED BY <1>0, <2>2, <2>3, PassedFrame, PassedEnd
<1>7. ASSUME NEW d \in Dev, restart(d)
      PROVE  Passed(s)'
  <2>1. /\ sessions' = sessions
        /\ initiator'[s] = initiator[s] \/ initiator'[s] = NoState
        /\ responder'[s] = responder[s] \/ responder'[s] = ""
    BY <1>7 DEF restart
  <2>2. initiator'[s] = initiator[s] \/ initiator'[s].at = "none"
    <3>1. NoState.at = "none"
      BY DEF NoState
    <3>2. QED BY <2>1, <3>1
  <2>3. sessions'[s] = sessions[s]
    BY <2>1
  <2>4. QED BY <1>0, <2>1, <2>2, <2>3, PassedFrame
<1>8. ASSUME NEW x \in Session, expire(x)
      PROVE  Passed(s)'
  <2>1. /\ sessions' = [sessions EXCEPT ![x].status = "gone"]
        /\ initiator' = [initiator EXCEPT ![x] = NoState]
        /\ responder' = [responder EXCEPT ![x] = ""]
    BY <1>8 DEF expire
  <2>2. /\ initiator'[s] = initiator[s] \/ initiator'[s].at = "none"
        /\ responder'[s] = responder[s] \/ responder'[s] = ""
    BY <1>0, <2>1 DEF NoState
  <2>3. CASE s # x
    <3>1. sessions'[s] = sessions[s]
      BY <1>0, <2>1, <2>3
    <3>2. QED BY <1>0, <2>2, <3>1, PassedFrame
  <2>4. CASE s = x
    <3>1. sessions'[s].status = "gone" /\ sessions'[s].by = sessions[s].by
      BY <1>0, <2>1, <2>4 DEF Rows
    <3>2. QED BY <1>0, <2>2, <3>1, PassedEnd
  <2>5. QED BY <2>3, <2>4
<1>9. ASSUME NEW d \in Dev,
        \/ begin_e2ee_setup(d) \/ begin_e2ee_rotation(d) \/ confirm_e2ee_setup(d)
        \/ restore_e2ee(d) \/ restore_confirm(d) \/ discard_e2ee_setup(d)
        \/ set_sync_credential(d) \/ finish_pairing(d) \/ install_keyset(d)
        \/ install_credential(d) \/ run_status(d) \/ load_keyset(d) \/ seal(d)
      PROVE UNCHANGED <<sessions, initiator, responder>>
  BY <1>9 DEF begin_e2ee_setup, begin_e2ee_rotation, confirm_e2ee_setup, restore_e2ee,
     restore_confirm, discard_e2ee_setup, set_sync_credential, finish_pairing, install_keyset,
     install_credential, run_status, load_keyset, seal, pairVars
<1>10. QED BY <1>1, <1>2, <1>3, <1>4, <1>5, <1>6, <1>7, <1>8, <1>9 DEF Next

-----------------------------------------------------------------------------
(* Devices that wait for their package.                                    *)

\* What keeps a waiting device as it is.
LEMMA PairedFrame ==
  ASSUME NEW e \in Dev, Paired(e), Responds(e)' => Responds(e), causes \subseteq causes',
         confirmed'[e] = 0 => confirmed[e] = 0,
         keyring'[e] = keyring[e], credential'[e] = credential[e], op'[e] = op[e]
  PROVE  Paired(e)'
BY DEF Paired, Undisturbed, Met

\* A device that is configured by other means, or has a version, waits no more.
LEMMA PairedElse ==
  ASSUME NEW e \in Dev,
         \/ <<"setup", e>> \in causes' \/ <<"undo", e>> \in causes'
         \/ confirmed'[e] # 0 \/ ~Responds(e)'
  PROVE  Paired(e)'
BY DEF Paired, Undisturbed, Met

\* A device on which nothing is installed waits rightly.
LEMMA PairedFresh ==
  ASSUME NEW e \in Dev, op'[e].at \in {"idle", "install_keyset"}, keyring'[e] = <<>>, credential'[e] = None
  PROVE  Paired(e)'
BY DEF Paired

\* Setup, rotation and their ends concern devices that no package waits for.
LEMMA Paired_setup ==
  ASSUME KeysInv, NEW e \in Dev, NEW d \in Dev,
         begin_e2ee_setup(d) \/ begin_e2ee_rotation(d) \/ confirm_e2ee_setup(d) \/ discard_e2ee_setup(d),
         confirmed'[e] = 0 => confirmed[e] = 0
  PROVE  Paired(e)'
<1>0. /\ Paired(e) /\ Local(d) /\ keyring \in [Dev -> Keysets] /\ confirmed \in [Dev -> Nat]
  BY DEF KeysInv, TypeOK
<1>1. /\ op' = op /\ credential' = credential /\ responder' = responder /\ causes \subseteq causes'
      /\ op[d] = NoOp
  BY DEF begin_e2ee_setup, begin_e2ee_rotation, confirm_e2ee_setup, discard_e2ee_setup, Cause, User,
     keyVars, pairVars
<1>2. Responds(e)' => Responds(e)
  BY <1>1 DEF Responds
<1>3. CASE keyring'[e] = keyring[e]
  BY <1>0, <1>1, <1>2, <1>3, PairedFrame
<1>4. CASE keyring'[e] # keyring[e] /\ begin_e2ee_setup(d)
  <2>1. e = d /\ <<"setup", e>> \in causes'
    BY <1>0, <1>4 DEF begin_e2ee_setup, Written, WriteFailed, Cause
  <2>2. QED BY <2>1, PairedElse
<1>5. CASE keyring'[e] # keyring[e] /\ begin_e2ee_rotation(d)
  <2>1. e = d /\ confirmed'[e] # 0
    BY <1>0, <1>5 DEF begin_e2ee_rotation, Written, WriteFailed
  <2>2. QED BY <2>1, PairedElse
<1>6. CASE keyring'[e] # keyring[e] /\ discard_e2ee_setup(d)
  <2>1. /\ e = d /\ confirmed[d] = 0 /\ keyring[d] # <<>> /\ op[d].at = "idle"
        /\ keyring'[d] = <<>> /\ causes' = causes /\ confirmed' = confirmed
    BY <1>0, <1>1, <1>6 DEF discard_e2ee_setup, Written, WriteFailed, NoOp
  <2>2. ~(Responds(d) /\ Undisturbed(d))
    BY <1>0, <2>1 DEF Paired
  <2>3. QED BY <1>2, <2>1, <2>2 DEF Paired, Undisturbed, Met
<1>7. CASE confirm_e2ee_setup(d)
  BY <1>3, <1>7 DEF confirm_e2ee_setup
<1>8. QED BY <1>3, <1>4, <1>5, <1>6, <1>7

\* Recovered keys are a setup of the device.
LEMMA Paired_restore ==
  ASSUME KeysInv, NEW e \in Dev, NEW d \in Dev, restore_e2ee(d),
         confirmed'[e] = 0 => confirmed[e] = 0
  PROVE  Paired(e)'
<1>0. /\ Paired(e) /\ Local(d) /\ keyring \in [Dev -> Keysets] /\ op \in [Dev -> Ops] /\ <<>> \notin material
  BY DEF KeysInv, TypeOK
<1>1. /\ credential' = credential /\ confirmed' = confirmed /\ responder' = responder /\ causes \subseteq causes'
      /\ op[d] = NoOp
  BY DEF restore_e2ee, Cause, User, pairVars
<1>2. Responds(e)' => Responds(e)
  BY <1>1 DEF Responds
<1>3. CASE keyring'[e] = keyring[e] /\ op'[e] = op[e]
  BY <1>0, <1>1, <1>2, <1>3, PairedFrame
<1>4. CASE ~(keyring'[e] = keyring[e] /\ op'[e] = op[e])
  <2>1. e = d
    BY <1>0, <1>4 DEF restore_e2ee, Written, WriteFailed
  <2>2. <<"setup", d>> \in causes' \/ keyring[d] \in material
    BY DEF restore_e2ee, Cause
  <2>3. CASE <<"setup", d>> \in causes'
    BY <2>1, <2>3, PairedElse
  <2>4. CASE keyring[d] \in material
    <3>1. keyring[d] # <<>> /\ op[d].at = "idle"
      BY <1>0, <1>1, <2>4 DEF NoOp
    <3>2. ~(Responds(d) /\ confirmed[d] = 0 /\ Undisturbed(d))
      BY <1>0, <2>1, <3>1 DEF Paired
    <3>3. QED BY <1>1, <1>2, <2>1, <3>2 DEF Paired, Undisturbed, Met
  <2>5. QED BY <2>2, <2>3, <2>4
<1>5. QED BY <1>3, <1>4

\* A recovery in progress is one of a device that was set up.
LEMMA Paired_restore_confirm ==
  ASSUME KeysInv, NEW e \in Dev, NEW d \in Dev, restore_confirm(d),
         confirmed'[e] = 0 => confirmed[e] = 0
  PROVE  Paired(e)'
<1>0. /\ Paired(e) /\ keyring \in [Dev -> Keysets] /\ op \in [Dev -> Ops]
  BY DEF KeysInv, TypeOK
<1>1. /\ credential' = credential /\ responder' = responder /\ causes \subseteq causes'
      /\ op[d].at = "restored" /\ op' = [op EXCEPT ![d] = NoOp]
      /\ \A x \in Dev : x # d => keyring'[x] = keyring[x]
  BY <1>0 DEF restore_confirm, Cause, pairVars
<1>2. Responds(e)' => Responds(e)
  BY <1>1 DEF Responds
<1>3. CASE e # d
  BY <1>0, <1>1, <1>2, <1>3, PairedFrame
<1>4. CASE e = d
  <2>1. ~(Responds(d) /\ confirmed[d] = 0 /\ Undisturbed(d))
    BY <1>0, <1>1, <1>4 DEF Paired
  <2>2. QED BY <1>1, <1>2, <1>4, <2>1 DEF Paired, Undisturbed, Met
<1>5. QED BY <1>3, <1>4

\* A device that joins is unconfigured.
LEMMA Paired_join ==
  ASSUME KeysInv, NEW e \in Dev, NEW d \in Dev, join_pairing(d)
  PROVE  Paired(e)'
<1>0. /\ Paired(e) /\ responder \in [Session -> Dev \cup {""}] /\ e # ""
  BY KeysAssumption DEF KeysInv, TypeOK
<1>1. /\ UNCHANGED <<keyring, credential, confirmed, op, causes>>
      /\ op[d] = NoOp /\ Unconfigured(d)
  BY DEF join_pairing, User, keyVars
<1>2. CASE e = d
  BY <1>1, <1>2, PairedFresh DEF Unconfigured, NoOp
<1>3. CASE e # d
  <2>1. PICK x \in Session : responder' = responder \/ responder' = [responder EXCEPT ![x] = d]
    BY DEF join_pairing
  <2>2. Responds(e)' => Responds(e)
    BY <1>0, <1>3, <2>1 DEF Responds
  <2>3. QED BY <1>0, <1>1, <2>2, PairedFrame
<1>4. QED BY <1>2, <1>3

\* A device that has received its package has installed nothing yet.
LEMMA Paired_finish ==
  ASSUME KeysInv, NEW e \in Dev, NEW d \in Dev, finish_pairing(d)
  PROVE  Paired(e)'
<1>0. Paired(e) /\ op \in [Dev -> Ops]
  BY DEF KeysInv, TypeOK
<1>1. UNCHANGED <<keyring, credential, confirmed, responder, causes>> /\ Unconfigured(d)
  BY DEF finish_pairing, keyVars, pairVars
<1>2. PICK s \in Session :
        op' = [op EXCEPT ![d] = [at |-> "install_keyset", session |-> s,
                                 keys |-> sessions[s].keys, token |-> sessions[s].token]]
  BY DEF finish_pairing
<1>3. CASE e = d
  <2>1. op'[d].at = "install_keyset"
    BY <1>0, <1>2
  <2>2. QED BY <1>1, <1>3, <2>1, PairedFresh DEF Unconfigured
<1>4. CASE e # d
  <2>1. op'[e] = op[e]
    BY <1>0, <1>2, <1>4
  <2>2. Responds(e)' => Responds(e)
    BY <1>1 DEF Responds
  <2>3. QED BY <1>0, <1>1, <2>1, <2>2, PairedFrame
<1>5. QED BY <1>3, <1>4

\* Installing the keyset: it is there afterwards, or nothing is.
LEMMA Paired_install_keyset ==
  ASSUME KeysInv, NEW e \in Dev, NEW d \in Dev, install_keyset(d)
  PROVE  Paired(e)'
<1>0. /\ Paired(e) /\ Local(e) /\ TypeOK /\ keyring \in [Dev -> Keysets] /\ op \in [Dev -> Ops]
  BY DEF KeysInv, TypeOK
<1>1. /\ credential' = credential /\ confirmed' = confirmed /\ responder' = responder
      /\ causes \subseteq causes' /\ op[d].at = "install_keyset"
  BY DEF install_keyset, Cause, pairVars
<1>2. \/ Written(d, op[d].keys) /\ Next_(d, "install_credential") /\ UNCHANGED causes
      \/ /\ WriteFailed(d, op[d].keys) /\ op' = [op EXCEPT ![d] = NoOp]
         /\ Cause(d, IF keyring' = keyring THEN {} ELSE {"undo"})
  BY DEF install_keyset
<1>3. Responds(e)' => Responds(e)
  BY <1>1 DEF Responds
<1>4. CASE e # d
  <2>1. keyring'[e] = keyring[e] /\ op'[e] = op[e]
    BY <1>0, <1>2, <1>4 DEF Written, WriteFailed, Next_
  <2>2. QED BY <1>0, <1>1, <1>3, <2>1, PairedFrame
<1>5. CASE e = d
  <2>1. SUFFICES ASSUME (Responds(d) /\ confirmed[d] = 0 /\ Undisturbed(d))'
                 PROVE  Paired(d)'
    BY <1>5 DEF Paired
  <2>2. Responds(d) /\ confirmed[d] = 0 /\ Undisturbed(d)
    BY <1>1, <1>3, <1>5, <2>1 DEF Undisturbed, Met
  <2>3. credential[d] = None /\ keyring[d] = <<>>
    BY <1>0, <1>1, <1>5, <2>2 DEF Paired
  <2>4. CASE Next_(d, "install_credential")
    <3>1. op'[d].at = "install_credential"
      BY <1>0, <1>1, <2>4, NextStep DEF Next_, InstallSteps
    <3>2. QED BY <1>1, <2>3, <3>1 DEF Paired
  <2>5. CASE /\ op' = [op EXCEPT ![d] = NoOp]
             /\ Cause(d, IF keyring' = keyring THEN {} ELSE {"undo"})
    <3>1. keyring' = keyring
      BY <2>1, <2>5 DEF Cause, Undisturbed, Met
    <3>2. op'[d].at = "idle"
      BY <1>0, <2>5 DEF NoOp
    <3>3. QED BY <1>1, <2>3, <3>1, <3>2, PairedFresh
  <2>6. QED BY <1>2, <2>4, <2>5
<1>6. QED BY <1>4, <1>5

\* Installing the credential.
LEMMA Paired_install_credential ==
  ASSUME KeysInv, NEW e \in Dev, NEW d \in Dev, install_credential(d)
  PROVE  Paired(e)'
<1>0. /\ Paired(e) /\ TypeOK /\ keyring \in [Dev -> Keysets] /\ op \in [Dev -> Ops]
      /\ credential \in [Dev -> Int]
  BY DEF KeysInv, TypeOK
<1>1. /\ confirmed' = confirmed /\ responder' = responder
      /\ causes \subseteq causes' /\ op[d].at = "install_credential"
  BY DEF install_credential, Cause, pairVars
<1>2. \/ /\ credential' = [credential EXCEPT ![d] = op[d].token]
         /\ Next_(d, "install_version") /\ keyring' = keyring
      \/ /\ credential' \in {credential, [credential EXCEPT ![d] = op[d].token]}
         /\ keyring' \in Undone(keyring, d, <<>>)
         /\ op' = [op EXCEPT ![d] = NoOp]
         /\ Cause(d, IF keyring'[d] = <<>> /\ credential' = credential THEN {} ELSE {"undo"})
  BY DEF install_credential
<1>3. Responds(e)' => Responds(e)
  BY <1>1 DEF Responds
<1>4. CASE e # d
  <2>1. keyring'[e] = keyring[e] /\ op'[e] = op[e] /\ credential'[e] = credential[e]
    BY <1>0, <1>2, <1>4 DEF Undone, Next_
  <2>2. QED BY <1>0, <1>1, <1>3, <2>1, PairedFrame
<1>5. CASE e = d
  <2>1. SUFFICES ASSUME (Responds(d) /\ confirmed[d] = 0 /\ Undisturbed(d))'
                 PROVE  Paired(d)'
    BY <1>5 DEF Paired
  <2>2. Responds(d) /\ confirmed[d] = 0 /\ Undisturbed(d)
    BY <1>1, <1>3, <1>5, <2>1 DEF Undisturbed, Met
  <2>3. credential[d] = None
    BY <1>0, <1>1, <1>5, <2>2 DEF Paired
  <2>4. CASE credential' = [credential EXCEPT ![d] = op[d].token] /\ Next_(d, "install_version")
    <3>1. op'[d].at = "install_version" /\ op'[d].token = op[d].token
      BY <1>0, <1>1, <2>4, NextStep DEF Next_, InstallSteps
    <3>2. credential'[d] = op[d].token
      BY <1>0, <2>4
    <3>3. QED BY <3>1, <3>2 DEF Paired
  <2>5. CASE /\ op' = [op EXCEPT ![d] = NoOp]
             /\ Cause(d, IF keyring'[d] = <<>> /\ credential' = credential THEN {} ELSE {"undo"})
    <3>1. keyring'[d] = <<>> /\ credential' = credential
      BY <2>1, <2>5 DEF Cause, Undisturbed, Met
    <3>2. op'[d].at = "idle"
      BY <1>0, <2>5 DEF NoOp
    <3>3. QED BY <2>3, <3>1, <3>2, PairedFresh
  <2>6. QED BY <1>2, <2>4, <2>5
<1>6. QED BY <1>4, <1>5

\* Confirming the version of the installed keyset.
LEMMA Paired_install_version ==
  ASSUME KeysInv, NEW e \in Dev, NEW d \in Dev, install_version(d),
         confirmed'[e] = 0 => confirmed[e] = 0
  PROVE  Paired(e)'
<1>0. /\ Paired(e) /\ Local(d) /\ TypeOK /\ keyring \in [Dev -> Keysets] /\ op \in [Dev -> Ops]
      /\ credential \in [Dev -> Int] /\ confirmed \in [Dev -> Nat]
      /\ responder \in [Session -> Dev \cup {""}]
  BY DEF KeysInv, TypeOK
<1>1. op[d].at = "install_version" /\ op' = [op EXCEPT ![d] = NoOp] /\ causes \subseteq causes'
  BY DEF install_version, Cause
<1>2. op[d].at \in InstallSteps
  BY <1>1 DEF InstallSteps
<1>3. \/ /\ confirmed' = [confirmed EXCEPT ![d] = Len(op[d].keys)]
         /\ responder' = [responder EXCEPT ![op[d].session] = ""]
         /\ UNCHANGED <<keyring, credential>>
      \/ /\ UNCHANGED <<confirmed, responder>>
         /\ credential' \in Undone(credential, d, None)
         /\ keyring' \in Undone(keyring, d, <<>>)
         /\ Cause(d, IF keyring'[d] = <<>> /\ credential'[d] = None THEN {} ELSE {"undo"})
  BY DEF install_version
<1>4. Responds(e)' => Responds(e)
  BY <1>0, <1>3, KeysAssumption DEF Responds
<1>5. CASE e # d
  <2>1. keyring'[e] = keyring[e] /\ op'[e] = op[e] /\ credential'[e] = credential[e]
    BY <1>0, <1>1, <1>3, <1>5 DEF Undone
  <2>2. QED BY <1>0, <1>1, <1>4, <2>1, PairedFrame
<1>6. CASE e = d /\ confirmed' = [confirmed EXCEPT ![d] = Len(op[d].keys)]
  <2>1. op[d].keys \in Keysets /\ op[d].keys # <<>>
    BY <1>0, <1>2, OpFields DEF Local, Installing
  <2>2. Len(op[d].keys) # 0
    BY <2>1, KeysetFacts
  <2>3. confirmed'[d] # 0
    BY <1>0, <1>6, <2>2
  <2>4. QED BY <1>6, <2>3, PairedElse
<1>7. CASE e = d /\ Cause(d, IF keyring'[d] = <<>> /\ credential'[d] = None THEN {} ELSE {"undo"})
  <2>1. CASE keyring'[d] = <<>> /\ credential'[d] = None
    <3>1. op'[d].at = "idle"
      BY <1>0, <1>1 DEF NoOp
    <3>2. QED BY <1>7, <2>1, <3>1, PairedFresh
  <2>2. CASE ~(keyring'[d] = <<>> /\ credential'[d] = None)
    <3>1. <<"undo", d>> \in causes'
      BY <1>7, <2>2 DEF Cause
    <3>2. QED BY <1>7, <3>1, PairedElse
  <2>3. QED BY <2>1, <2>2
<1>8. QED BY <1>3, <1>5, <1>6, <1>7

\* The steps of the user and of time that do not touch what a device holds.
LEMMA Paired_others ==
  ASSUME KeysInv, NEW e \in Dev,
         \/ \E d \in Dev : \/ set_sync_credential(d) \/ start_pairing(d) \/ approve_pairing(d)
                           \/ revoke_device(d) \/ run_status(d) \/ load_keyset(d) \/ seal(d)
         \/ \E s \in Session : expire(s)
  PROVE  Paired(e)'
<1>0. /\ Paired(e) /\ credential \in [Dev -> Int] /\ responder \in [Session -> Dev \cup {""}]
      /\ e # ""
  BY KeysAssumption DEF KeysInv, TypeOK
<1>1. UNCHANGED <<keyring, confirmed, op>> /\ causes \subseteq causes'
  BY DEF set_sync_credential, start_pairing, approve_pairing, revoke_device, run_status,
     load_keyset, seal, expire, Cause, keyVars
<1>2. Responds(e)' => Responds(e)
  <2>1. CASE responder' = responder
    BY <2>1 DEF Responds
  <2>2. ASSUME NEW s \in Session, expire(s) PROVE Responds(e)' => Responds(e)
    <3>1. responder' = [responder EXCEPT ![s] = ""]
      BY <2>2 DEF expire
    <3>2. QED BY <1>0, <3>1 DEF Responds
  <2>3. QED BY <2>1, <2>2 DEF set_sync_credential, start_pairing, approve_pairing, revoke_device,
            run_status, load_keyset, seal, pairVars
<1>3. CASE credential'[e] = credential[e]
  BY <1>0, <1>1, <1>2, <1>3, PairedFrame
<1>4. ASSUME NEW d \in Dev, set_sync_credential(d), credential'[e] # credential[e]
      PROVE  Paired(e)'
  <2>1. e = d /\ <<"setup", e>> \in causes'
    BY <1>0, <1>4 DEF set_sync_credential, Cause
  <2>2. QED BY <2>1, PairedElse
<1>5. QED BY <1>3, <1>4 DEF start_pairing, approve_pairing, revoke_device, run_status,
          load_keyset, seal, expire, keyVars

\* A device that has ended waits for nothing.
LEMMA Paired_restart ==
  ASSUME KeysInv, NEW e \in Dev, NEW d \in Dev, restart(d)
  PROVE  Paired(e)'
<1>0. /\ Paired(e) /\ op \in [Dev -> Ops] /\ e # ""
  BY KeysAssumption DEF KeysInv, TypeOK
<1>1. /\ UNCHANGED <<keyring, credential, confirmed, causes>> /\ op' = [op EXCEPT ![d] = NoOp]
      /\ responder' = [s \in Session |-> IF responder[s] = d THEN "" ELSE responder[s]]
  BY DEF restart, keyVars
<1>2. CASE e = d
  <2>1. ~Responds(e)'
    BY <1>0, <1>1, <1>2 DEF Responds
  <2>2. QED BY <2>1, PairedElse
<1>3. CASE e # d
  <2>1. op'[e] = op[e]
    BY <1>0, <1>1, <1>3
  <2>2. Responds(e)' => Responds(e)
    BY <1>0, <1>1 DEF Responds
  <2>3. QED BY <1>0, <1>1, <2>1, <2>2, PairedFrame
<1>4. QED BY <1>2, <1>3

\* The devices that wait for their package, in every step.
LEMMA NextPaired ==
  ASSUME KeysInv, Next, NEW e \in Dev
  PROVE  Paired(e)'
<1>1. confirmed'[e] = 0 => confirmed[e] = 0
  BY ConfirmedStays
<1>2. ASSUME NEW d \in Dev,
        \/ begin_e2ee_setup(d) \/ begin_e2ee_rotation(d) \/ confirm_e2ee_setup(d)
        \/ restore_e2ee(d) \/ restore_confirm(d) \/ discard_e2ee_setup(d)
        \/ join_pairing(d) \/ finish_pairing(d) \/ install_keyset(d)
        \/ install_credential(d) \/ install_version(d) \/ restart(d)
      PROVE Paired(e)'
  BY <1>1, <1>2, Paired_setup, Paired_restore, Paired_restore_confirm, Paired_join, Paired_finish,
     Paired_install_keyset, Paired_install_credential, Paired_install_version, Paired_restart
<1>3. ASSUME \/ \E d \in Dev : \/ set_sync_credential(d) \/ start_pairing(d) \/ approve_pairing(d)
                               \/ revoke_device(d) \/ run_status(d) \/ load_keyset(d) \/ seal(d)
             \/ \E s \in Session : expire(s)
      PROVE Paired(e)'
  BY <1>3, Paired_others
<1>4. QED BY <1>2, <1>3 DEF Next

-----------------------------------------------------------------------------
(* The theorems.                                                           *)

\* Every step keeps the invariant.
LEMMA NextInv == KeysInv /\ [Next]_vars => KeysInv'
<1>1. ASSUME KeysInv, Next PROVE KeysInv'
  <2>1. TypeOK'
    BY <1>1, NextTypes DEF KeysInv
  <2>2. <<>> \notin material'
    BY <1>1, MaterialStep DEF KeysInv
  <2>3. ASSUME NEW d \in Dev PROVE (Local(d) /\ Known(d) /\ Paired(d))'
    BY <1>1, <2>1, NextLocal, NextKnown, NextPaired
  <2>4. ASSUME NEW s \in Session PROVE Passed(s)'
    BY <1>1, NextPassed
  <2>5. QED BY <2>1, <2>2, <2>3, <2>4 DEF KeysInv
<1>2. ASSUME KeysInv, UNCHANGED vars PROVE KeysInv'
  <2>1. TypeOK'
    BY <1>2, NextTypes DEF KeysInv
  <2>2. UNCHANGED <<keyring, credential, confirmed, initiator, responder, sessions, registered,
                    op, run, material, sealed, early, causes>>
    BY <1>2 DEF vars, keyVars, pairVars
  <2>3. ASSUME NEW d \in Dev PROVE Local(d)'
    BY <1>2, <2>2, LocalFrame DEF KeysInv, Same
  <2>4. ASSUME NEW d \in Dev PROVE Known(d)'
    BY <1>2, <2>2 DEF KeysInv, Known
  <2>5. ASSUME NEW d \in Dev PROVE Paired(d)'
    BY <1>2, <2>2 DEF KeysInv, Paired, Responds, Undisturbed, Met
  <2>6. ASSUME NEW s \in Session PROVE Passed(s)'
    BY <1>2, <2>2 DEF KeysInv, Passed
  <2>7. QED BY <1>2, <2>1, <2>2, <2>3, <2>4, <2>5, <2>6 DEF KeysInv
<1>3. QED BY <1>1, <1>2

\* The invariant implies the properties of the keys.
LEMMA InvSafe == KeysInv => KeysSafe
<1>1. SUFFICES ASSUME KeysInv PROVE KeysSafe
  OBVIOUS
<1>2. /\ TypeOK /\ \A d \in Dev : Local(d) /\ Known(d) /\ Paired(d)
      /\ \A s \in Session : Passed(s)
  BY <1>1 DEF KeysInv
<1>3. ConfirmedHeld
  BY <1>2 DEF ConfirmedHeld, Local, Held
<1>4. KeysKept
  <2>1. SUFFICES ASSUME NEW d \in Dev, ~Met("race", d), NEW k \in sealed[d]
                 PROVE  k \in {keyring[d][i] : i \in DOMAIN keyring[d]}
    BY DEF KeysKept, Met
  <2>2. PICK i \in 1 .. confirmed[d] : keyring[d][i] = k
    BY <1>2, <2>1 DEF Local, InHand
  <2>3. confirmed[d] <= Len(keyring[d]) /\ confirmed[d] \in Nat /\ Len(keyring[d]) \in Nat
    BY <1>2, LocalTypes DEF Local, Held
  <2>4. keyring[d] \in Seq(Nat)
    BY <1>2 DEF TypeOK, Keysets
  <2>5. i \in DOMAIN keyring[d]
    BY <2>2, <2>3, <2>4
  <2>6. QED BY <2>2, <2>5
<1>5. SealedConfirmed
  <2>1. \A d \in early : d \in Dev
    BY <1>2 DEF TypeOK
  <2>2. QED BY <1>2, <2>1 DEF SealedConfirmed, Local, InHand, Met
<1>6. PairedIsKnown
  BY <1>2 DEF PairedIsKnown, Known
<1>7. ApprovalRepeatable
  BY <1>2 DEF ApprovalRepeatable, Passed
<1>8. PairingRepeatable
  <2>1. SUFFICES ASSUME NEW s \in Session, NEW d \in Dev, responder[s] = d, op[d] = NoOp,
                        confirmed[d] = 0, {<<"undo", d>>, <<"setup", d>>} \cap causes = {}
                 PROVE  Unconfigured(d)
    BY DEF PairingRepeatable
  <2>2. Responds(d) /\ Undisturbed(d) /\ op[d].at = "idle"
    BY <2>1 DEF Responds, Undisturbed, Met, NoOp
  <2>3. QED BY <1>2, <2>1, <2>2 DEF Paired, Unconfigured
<1>9. QED BY <1>2, <1>3, <1>4, <1>5, <1>6, <1>7, <1>8 DEF KeysSafe

\* Through setup, rotation, recovery, pairing, revocation, failed writes, lost
\* answers and ends of the application, for any devices and sessions: the
\* confirmed version is held, sealed changes stay readable and are sealed with
\* confirmed keys, the gateway knows the credential it has passed on, and what
\* was interrupted can be repeated.
THEOREM KeysCorrect == Spec => []KeysSafe
<1>1. Spec => []KeysInv
  BY InitInv, NextInv, PTL DEF Spec
<1>2. QED BY <1>1, InvSafe, PTL

\* Encryption is never turned off again: a device that has confirmed a keyset
\* has one confirmed after every step, the undoing of failed ones included.
EncryptionStays == [][\A d \in Dev : confirmed[d] # 0 => confirmed'[d] # 0]_vars

\* The theorem of that action property, from the same invariant.
THEOREM EncryptionCorrect == Spec => EncryptionStays
<1>1. KeysInv /\ [Next]_vars => [\A d \in Dev : confirmed[d] # 0 => confirmed'[d] # 0]_vars
  BY ConfirmedStays
<1>2. Spec => []KeysInv
  BY InitInv, NextInv, PTL DEF Spec
<1>3. QED BY <1>1, <1>2, PTL DEF Spec, EncryptionStays

\* The gateway never forgets a device and never gives it another credential
\* than the one of its configuration: a repeated approval cannot replace what
\* a device has installed.
RegistrationStays ==
    [][\A d \in Dev : registered[d] # None => registered'[d] \in {registered[d], Manual}]_vars

\* The theorem of that action property.
THEOREM RegistrationCorrect == Spec => RegistrationStays
<1>1. KeysInv /\ [Next]_vars =>
        [\A d \in Dev : registered[d] # None => registered'[d] \in {registered[d], Manual}]_vars
  BY RegisteredStays DEF KeysInv
<1>2. Spec => []KeysInv
  BY InitInv, NextInv, PTL DEF Spec
<1>3. QED BY <1>1, <1>2, PTL DEF Spec, RegistrationStays
=============================================================================
