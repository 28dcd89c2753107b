-------------------------- MODULE StorageAccounts --------------------------
(***************************************************************************)
(* One storage provider account: its row and binding in the database, its  *)
(* credential in the key ring, and the operations that run on it           *)
(* concurrently (storage/service.rs, storage/google_drive.rs,              *)
(* storage/quark_drive.rs, db/repo/storage.rs).  Every command runs in its *)
(* own task, so each await point is a step here.  An operation reads the   *)
(* account row when it connects, talks to the provider, and writes the     *)
(* status of the row it read back when it ends; a Google request may       *)
(* replace the credential on the way, and a user may authorize or remove   *)
(* the account meanwhile.                                                  *)
(***************************************************************************)
EXTENDS Naturals, FiniteSets

CONSTANTS Proc,           \* concurrent commands on the account
          Providers,      \* the kinds of account that are explored
          MaxGrant,       \* bound: authorizations
          MaxFailures,     \* bound: failing key ring or database calls, and crashes
          MAX_API_ATTEMPTS,
          Statuses        \* HTTP answers of the provider

\* What the proofs and MCServices assume of the constants.
AccountsAssumption ==
    /\ "free" \notin Proc
    /\ Providers \subseteq {"google_drive", "quark_drive", "cloudflare_r2"}
    /\ MaxGrant \in Nat /\ MaxFailures \in Nat /\ MAX_API_ATTEMPTS \in Nat \ {0}

VARIABLES provider,    \* "google_drive", "quark_drive" or "cloudflare_r2"
          account,     \* the account row: "none", "live" or "deleted" (deleted_at)
          binding,     \* storage_provider_bindings
          cred,        \* the key ring entry of the account: the grant it was made from
          syncCred,    \* does the key ring hold the sync credential
          revoked,     \* the provider no longer accepts the grants up to this one
          grants,      \* authorizations granted so far
          saved,       \* the grant of the last authorization that was reported as done
          challenge,   \* is a QR challenge registered
          refreshLock, \* refresh_lock of the shared Google session
          proc,        \* the commands in flight
          failures,    \* failed calls and crashes so far
          causes,      \* what happened that the code does not defend against
          overtaken    \* commands in flight since before the account last lost its
                       \* authorization or the sync credential changed

accountVars == <<provider, account, binding, cred, syncCred, revoked, grants, saved,
                 challenge, refreshLock, proc, failures, causes, overtaken>>

durable == <<provider, account, binding, cred, syncCred, revoked, grants, saved>>

NoCred == 0
NoBinding == [auth |-> "disconnected", enabled |-> FALSE, err |-> "none"]
Idle == [pc |-> "idle", op |-> "none", held |-> NoCred, new |-> 0,
         force |-> FALSE, retried |-> FALSE, attempt |-> 0, err |-> "none",
         row |-> NoBinding]  \* row: its copy of the binding

Lock == Proc \cup {"free"}

\* The category the code makes of an HTTP answer.

response_error(status) ==
    CASE status = 401 -> "authentication"
      [] status = 403 -> "permission"
      [] status = 429 -> "rate_limit"
      [] status = 400 -> "invalid_request"
      [] OTHER        -> "remote_unavailable"

retryable_status(status) == status \in {429, 500}

\* Quark has no retry: 401 and 403 both mean a dead cookie.
status_error_with_message(status) ==
    IF status \in {401, 403} THEN "authentication" ELSE "remote_unavailable"

\* A failed token refresh with 400 (invalid_grant) counts as authentication.
refresh_error(status) ==
    IF response_error(status) = "invalid_request" THEN "authentication"
    ELSE response_error(status)

at(p) == proc[p].pc

Goto(p, l) == proc' = [proc EXCEPT ![p].pc = l]

Finish(p) == proc' = [proc EXCEPT ![p] = Idle]

\* The operation ended in the provider session, with error e: its status is written next.
Ended(p, e) == proc' = [proc EXCEPT ![p] = [Idle EXCEPT !.pc = "status", !.op = "files", !.err = e,
                                                         !.row = proc[p].row]]

CallFails == failures < MaxFailures /\ failures' = failures + 1

Mutating(p) == proc[p].op \in {"save", "remove"} /\ at(p) # "idle"

\* Two commands change the credential and the row of the account together.
Overlap(p) == IF \E q \in Proc \ {p} : Mutating(q) THEN causes \cup {"credential_race"} ELSE causes

AccountsInit ==
    /\ provider \in Providers
    /\ account = "none"
    /\ binding = NoBinding
    /\ cred = NoCred
    /\ syncCred \in {provider = "cloudflare_r2", FALSE}
    /\ revoked = 0
    /\ grants = 0
    /\ saved = 0
    /\ challenge = FALSE
    /\ refreshLock = "free"
    /\ proc = [p \in Proc |-> Idle]
    /\ failures = 0
    /\ causes = {}
    /\ overtaken = {}

-----------------------------------------------------------------------------
(* Authorization.                                                           *)

\* GoogleDriveFactory::authorize: the callback arrives and its code is exchanged
\* for tokens.  Nothing changes while the browser is open, nor when the user
\* denies, the state does not match or five minutes pass.
authorize_with_pkce(p) ==
    /\ provider = "google_drive"
    /\ at(p) = "idle"
    /\ grants < MaxGrant
    /\ grants' = grants + 1
    /\ proc' = [proc EXCEPT ![p].pc = "save_load", ![p].op = "save", ![p].new = grants + 1]
    /\ causes' = Overlap(p)
    /\ UNCHANGED <<provider, account, binding, cred, syncCred, revoked, saved,
                   challenge, refreshLock, failures>>

\* QuarkDriveFactory::begin_authorization: registers a QR challenge.
begin_authorization(p) ==
    /\ provider = "quark_drive"
    /\ at(p) = "idle"
    /\ grants < MaxGrant
    /\ challenge' = TRUE
    /\ UNCHANGED <<durable, refreshLock, proc, failures, causes>>

\* QuarkDriveFactory::poll_authorization up to the request; a challenge past
\* its 300 seconds is dropped instead.
poll_authorization(p) ==
    /\ at(p) = "idle"
    /\ challenge
    /\ \/ /\ proc' = [proc EXCEPT ![p].pc = "polling", ![p].op = "authorize"]
          /\ UNCHANGED challenge
       \/ challenge' = FALSE /\ UNCHANGED proc
    /\ UNCHANGED <<durable, refreshLock, failures, causes>>

\* The answer: still pending or unreachable, refused, or a ticket that is
\* exchanged for a cookie.  Overlapping polls of one challenge may both get one.
poll_result(p) ==
    /\ at(p) = "polling"
    /\ \/ Finish(p) /\ challenge' \in {challenge, FALSE} /\ UNCHANGED <<grants, causes>>
       \/ /\ grants < MaxGrant
          /\ challenge' = FALSE
          /\ grants' = grants + 1
          /\ proc' = [proc EXCEPT ![p].pc = "save_load", ![p].op = "save", ![p].new = grants + 1]
          /\ causes' = Overlap(p)
    /\ UNCHANGED <<provider, account, binding, cred, syncCred, revoked, saved,
                   refreshLock, failures>>

-----------------------------------------------------------------------------
(* save_connected_account and remove_account: the key ring first, then the  *)
(* database, with the previous credential put back when a step fails.       *)

\* Both load the previous credential before they touch anything.
load_previous(p) ==
    /\ at(p) \in {"save_load", "remove_load"}
    /\ \/ /\ proc' = [proc EXCEPT ![p].held = cred,
                          ![p].pc = IF at(p) = "save_load" THEN "save_store" ELSE "remove_delete"]
          /\ UNCHANGED failures
       \/ Finish(p) /\ CallFails
    /\ UNCHANGED <<durable, challenge, refreshLock, causes>>

save_store(p) ==
    /\ at(p) = "save_store"
    /\ \/ /\ cred' = proc[p].new
          /\ Goto(p, "save_verify")
          /\ UNCHANGED failures
       \/ Finish(p) /\ CallFails /\ UNCHANGED cred
    /\ UNCHANGED <<provider, account, binding, syncCred, revoked, grants, saved,
                   challenge, refreshLock, causes>>

\* The stored credential is read back and compared with the one just written.
save_verify(p) ==
    /\ at(p) = "save_verify"
    /\ \/ /\ Goto(p, IF cred = proc[p].new THEN "save_upsert" ELSE "restore")
          /\ UNCHANGED failures
       \/ Goto(p, "restore") /\ CallFails
    /\ UNCHANGED <<durable, challenge, refreshLock, causes>>

\* upsert_account: revives a deleted row and resets the binding's error; the
\* quota columns are not among those it sets.
upsert_account(auth) ==
    /\ account' = "live"
    /\ binding' = [binding EXCEPT !.auth = auth, !.enabled = TRUE, !.err = "none"]

save_upsert(p) ==
    /\ at(p) = "save_upsert"
    /\ \/ /\ upsert_account("connected")
          /\ saved' = proc[p].new
          /\ Finish(p)
          /\ UNCHANGED failures
       \/ Goto(p, "restore") /\ CallFails /\ UNCHANGED <<account, binding, saved>>
    /\ UNCHANGED <<provider, cred, syncCred, revoked, grants, challenge, refreshLock, causes>>

\* mutant: the previous credential is not put back
restore_credential_Skip(p) ==
    /\ at(p) = "restore"
    /\ Finish(p)
    /\ UNCHANGED <<durable, challenge, refreshLock, failures, causes>>

\* restore_credential: stores the previous credential, or deletes the entry.
restore_credential(p) ==
    /\ at(p) = "restore"
    /\ \/ cred' = proc[p].held /\ UNCHANGED <<failures, causes>>
       \/ CallFails /\ causes' = causes \cup {"credential_race"} /\ UNCHANGED cred
    /\ Finish(p)
    /\ UNCHANGED <<provider, account, binding, syncCred, revoked, grants, saved,
                   challenge, refreshLock>>

\* remove_account refuses the managed R2 account.
remove_account(p) ==
    /\ at(p) = "idle"
    /\ provider # "cloudflare_r2"
    /\ account = "live"
    /\ proc' = [proc EXCEPT ![p].pc = "remove_load", ![p].op = "remove"]
    /\ causes' = Overlap(p)
    /\ UNCHANGED <<durable, challenge, refreshLock, failures>>

remove_delete(p) ==
    /\ at(p) = "remove_delete"
    /\ \/ cred' = NoCred /\ Goto(p, "remove_row") /\ UNCHANGED failures
       \/ Finish(p) /\ CallFails /\ UNCHANGED cred
    /\ UNCHANGED <<provider, account, binding, syncCred, revoked, grants, saved,
                   challenge, refreshLock, causes>>

\* delete_account: fails when the row is already deleted.
delete_account ==
    /\ account = "live"
    /\ account' = "deleted"
    /\ binding' = [binding EXCEPT !.auth = "disconnected", !.enabled = FALSE]

remove_row(p) ==
    /\ at(p) = "remove_row"
    /\ \/ delete_account /\ Finish(p) /\ saved' = 0 /\ UNCHANGED failures
       \/ account # "live" /\ Goto(p, "restore") /\ UNCHANGED <<account, binding, saved, failures>>
       \/ CallFails /\ Goto(p, "restore") /\ UNCHANGED <<account, binding, saved>>
    /\ UNCHANGED <<provider, cred, syncCred, revoked, grants, challenge, refreshLock, causes>>

-----------------------------------------------------------------------------
(* The managed R2 account uses the sync credential, which it only reads.    *)

ManagedRow(auth) == [auth |-> auth, enabled |-> TRUE, err |-> "none"]

\* mutant: the credential is not looked at
ensure_managed_r2_account_Blind(p) ==
    /\ provider = "cloudflare_r2" /\ at(p) = "idle"
    /\ proc' = [proc EXCEPT ![p].pc = "managed", ![p].op = "managed", ![p].row = ManagedRow("connected")]
    /\ UNCHANGED <<durable, challenge, refreshLock, failures, causes>>

\* The credential is loaded, and what the row will say follows from it.
ensure_managed_r2_account(p) ==
    /\ provider = "cloudflare_r2" /\ at(p) = "idle"
    /\ proc' = [proc EXCEPT ![p].pc = "managed", ![p].op = "managed",
                             ![p].row = ManagedRow(IF syncCred THEN "connected" ELSE "auth_required")]
    /\ UNCHANGED <<durable, challenge, refreshLock, failures, causes>>

managed_upsert(p) ==
    /\ at(p) = "managed"
    /\ \/ upsert_account(proc[p].row.auth) /\ UNCHANGED failures
       \/ CallFails /\ UNCHANGED <<account, binding>>
    /\ Finish(p)
    /\ UNCHANGED <<provider, cred, syncCred, revoked, grants, saved, challenge, refreshLock, causes>>

\* Pairing stores the sync credential, disconnecting deletes it.
sync_credential_changes ==
    /\ provider = "cloudflare_r2"
    /\ syncCred' = ~syncCred
    /\ CallFails
    /\ UNCHANGED <<provider, account, binding, cred, revoked, grants, saved,
                   challenge, refreshLock, proc, causes>>

\* refresh_shared_credential_state: the auth state the row should have.
shared_auth_state(row) ==
    IF ~syncCred THEN "auth_required"
    ELSE IF row.auth = "auth_required" /\ row.err = "none" THEN "connected"
    ELSE row.auth

-----------------------------------------------------------------------------
(* An operation on the account: list, search, trash, move, quota (whose     *)
(* columns, written with the others, are left out).                         *)

Usable(row) == row.enabled /\ row.auth = "connected"

\* connect_account_with_row: the row is read and refused unless enabled and
\* connected; for the managed account its auth state is brought up to date first.
connect_account_with_row(p) ==
    /\ at(p) = "idle"
    /\ account = "live"
    /\ \/ /\ provider # "cloudflare_r2" /\ Usable(binding)
          /\ proc' = [proc EXCEPT ![p].pc = "open", ![p].op = "files", ![p].row = [binding EXCEPT !.err = "none"]]
       \/ /\ provider = "cloudflare_r2"
          /\ proc' = [proc EXCEPT ![p].pc = "shared_load", ![p].op = "files", ![p].row = binding]
    /\ UNCHANGED <<durable, challenge, refreshLock, failures, causes>>

\* The sync credential is loaded, and the copy of the row is what the row should be
\* (from here on its error is of no use); a different auth state is written first.
refresh_shared_credential_state(p) ==
    LET row == proc[p].row
        updated == [row EXCEPT !.auth = shared_auth_state(row), !.err = "none"]
    IN /\ at(p) = "shared_load"
       /\ \/ /\ updated.auth # row.auth
             /\ proc' = [proc EXCEPT ![p].pc = "shared_write", ![p].row = updated]
             /\ UNCHANGED failures
          \/ /\ updated.auth = row.auth /\ Usable(row)
             /\ proc' = [proc EXCEPT ![p].pc = "open", ![p].row = updated]
             /\ UNCHANGED failures
          \/ updated.auth = row.auth /\ ~Usable(row) /\ Finish(p) /\ UNCHANGED failures
          \/ CallFails /\ Finish(p)
       /\ UNCHANGED <<durable, challenge, refreshLock, causes>>

\* The binding is written from the copy, whatever it has become meanwhile.
shared_write(p) ==
    /\ at(p) = "shared_write"
    /\ \/ /\ binding' = proc[p].row
          /\ IF Usable(proc[p].row) THEN Goto(p, "open") ELSE Finish(p)
          /\ UNCHANGED failures
       \/ CallFails /\ Finish(p) /\ UNCHANGED binding
    /\ UNCHANGED <<provider, account, cred, syncCred, revoked, grants, saved,
                   challenge, refreshLock, causes>>

HasCredential == IF provider = "cloudflare_r2" THEN syncCred ELSE cred # NoCred

\* ProviderFactory::connect loads the credential; sessions of one account are shared.
connect(p) ==
    /\ at(p) = "open"
    /\ IF HasCredential
       THEN Goto(p, IF provider = "google_drive" THEN "token" ELSE "request")
       ELSE Ended(p, "authentication")
    /\ UNCHANGED <<durable, challenge, refreshLock, failures, causes>>

\* access_token under refresh_lock: load, and refresh when forced or when the
\* token has expired meanwhile.
access_token(p) ==
    /\ at(p) = "token"
    /\ refreshLock = "free"
    /\ \/ cred = NoCred /\ Ended(p, "authentication") /\ UNCHANGED refreshLock
       \/ /\ cred # NoCred
          /\ refreshLock' = p
          /\ proc' = [proc EXCEPT ![p].pc = "refresh", ![p].held = cred]
       \/ /\ cred # NoCred
          /\ ~proc[p].force
          /\ proc' = [proc EXCEPT ![p].pc = "request", ![p].held = cred]
          /\ UNCHANGED refreshLock
    /\ UNCHANGED <<durable, challenge, failures, causes>>

\* refresh_credential: the token endpoint is asked while the lock is held; it
\* answers 400 (invalid_grant) for a revoked grant.
refresh_credential(p) ==
    /\ at(p) = "refresh"
    /\ \/ proc[p].held > revoked /\ Goto(p, "store") /\ UNCHANGED refreshLock
       \/ /\ \E status \in {500} \cup (IF proc[p].held <= revoked THEN {400} ELSE {}) :
                Ended(p, refresh_error(status))
          /\ refreshLock' = "free"
    /\ UNCHANGED <<durable, challenge, failures, causes>>

attempts_left(p) == proc[p].attempt + 1 < MAX_API_ATTEMPTS

\* The refreshed credential replaces whatever the key ring now holds.  After a
\* forced refresh the request is sent again, if an attempt is left.
store_refreshed(p) ==
    /\ at(p) = "store"
    /\ refreshLock' = "free"
    /\ \/ /\ cred' = proc[p].held
          /\ causes' = IF cred = proc[p].held THEN causes ELSE causes \cup {"credential_race"}
          /\ UNCHANGED failures
          /\ IF ~proc[p].force THEN Goto(p, "request")
             ELSE IF attempts_left(p)
             THEN proc' = [proc EXCEPT ![p].pc = "token", ![p].force = FALSE,
                                       ![p].retried = TRUE, ![p].attempt = @ + 1]
             ELSE Ended(p, "remote_unavailable")
       \/ Ended(p, "authentication") /\ CallFails /\ UNCHANGED <<cred, causes>>
    /\ UNCHANGED <<provider, account, binding, syncCred, revoked, grants, saved, challenge>>

\* send_authorized: one forced refresh on 401, and a retry on a transient
\* status while attempts are left.
send_authorized(p) ==
    /\ at(p) = "request"
    /\ provider = "google_drive"
    /\ \E status \in Statuses :
        IF status = 200 THEN proc[p].held > revoked /\ Ended(p, "none")
        ELSE IF status = 401 /\ ~proc[p].retried
        THEN proc' = [proc EXCEPT ![p].pc = "token", ![p].force = TRUE]
        ELSE IF retryable_status(status) /\ attempts_left(p)
        THEN proc' = [proc EXCEPT ![p].pc = "token", ![p].attempt = @ + 1]
        ELSE Ended(p, response_error(status))
    /\ UNCHANGED <<durable, challenge, refreshLock, failures, causes>>

\* request_json (Quark) and the R2 session: the credential is loaded and the
\* request sent once.
request_json(p) ==
    /\ at(p) = "request"
    /\ provider # "google_drive"
    /\ \E status \in Statuses :
        IF ~HasCredential THEN Ended(p, "authentication")
        ELSE IF status = 200 THEN (provider = "cloudflare_r2" \/ cred > revoked) /\ Ended(p, "none")
        ELSE Ended(p, status_error_with_message(status))
    /\ UNCHANGED <<durable, challenge, refreshLock, failures, causes>>

\* update_provider_status, or update_storage_binding of refresh_quota: the
\* binding is written from the row read at connect time, whether or not the account
\* still exists.
update_provider_status(p) ==
    /\ at(p) = "status"
    /\ \/ /\ binding' = [proc[p].row EXCEPT
                !.auth = IF proc[p].err = "authentication" THEN "auth_required" ELSE @,
                !.err = proc[p].err]
          /\ causes' = IF account = "live" THEN causes ELSE causes \cup {"stale_status"}
          /\ UNCHANGED failures
       \/ CallFails /\ UNCHANGED <<binding, causes>>
    /\ Finish(p)
    /\ UNCHANGED <<provider, account, cred, syncCred, revoked, grants, saved,
                   challenge, refreshLock>>

-----------------------------------------------------------------------------
(* The environment.                                                         *)

\* The user withdraws the access at the provider, or it lapses.
grant_revoked ==
    /\ revoked < grants
    /\ revoked' = grants
    /\ UNCHANGED <<provider, account, binding, cred, syncCred, grants, saved,
                   challenge, refreshLock, proc, failures, causes>>

\* The application ends: commands, sessions and challenges are gone.
application_ends ==
    /\ \E p \in Proc : at(p) # "idle"
    /\ CallFails
    /\ proc' = [p \in Proc |-> Idle]
    /\ refreshLock' = "free"
    /\ challenge' = FALSE
    /\ causes' = IF \E p \in Proc : Mutating(p) THEN causes \cup {"credential_race"} ELSE causes
    /\ UNCHANGED durable

Local(p) ==
    \/ load_previous(p) \/ save_store(p) \/ save_verify(p) \/ save_upsert(p)
    \/ restore_credential(p) \/ remove_delete(p) \/ remove_row(p)
    \/ managed_upsert(p) \/ refresh_shared_credential_state(p) \/ shared_write(p)
    \/ connect(p) \/ store_refreshed(p) \/ update_provider_status(p)

Network(p) ==
    poll_result(p) \/ refresh_credential(p) \/ send_authorized(p) \/ request_json(p)

Start(p) ==
    authorize_with_pkce(p) \/ begin_authorization(p) \/ poll_authorization(p)
    \/ remove_account(p) \/ ensure_managed_r2_account(p) \/ connect_account_with_row(p)

Environment == sync_credential_changes \/ grant_revoked \/ application_ends

Overtaking ==
    \/ binding' # binding /\ binding'.auth = "auth_required"
    \/ syncCred' # syncCred

InFlight == {p \in Proc : at(p) # "idle"}

AccountsNext ==
    /\ \/ \E p \in Proc : Start(p) \/ Local(p) \/ access_token(p) \/ Network(p)
       \/ Environment
    /\ overtaken' = (IF Overtaking THEN InFlight ELSE overtaken) \cap InFlight'

AccountsSpec == AccountsInit /\ [][AccountsNext]_accountVars

-----------------------------------------------------------------------------
Errors == {"none", "authentication", "permission", "rate_limit", "invalid_request",
           "remote_unavailable"}

Bindings == [auth : {"connected", "auth_required", "disconnected"}, enabled : BOOLEAN, err : Errors]

Commands ==
    [pc : {"idle", "polling", "save_load", "save_store", "save_verify", "save_upsert", "restore",
           "remove_load", "remove_delete", "remove_row", "managed", "shared_load", "shared_write",
           "open", "token", "refresh", "store", "request", "status"},
     op : {"none", "save", "remove", "authorize", "managed", "files"},
     held : 0 .. MaxGrant, new : 0 .. MaxGrant, force : BOOLEAN, retried : BOOLEAN,
     attempt : 0 .. MAX_API_ATTEMPTS - 1, err : Errors, row : Bindings]

\* The type of the state: database columns, key ring entry and commands in flight.
AccountsTypeOK ==
    /\ provider \in Providers
    /\ account \in {"none", "live", "deleted"}
    /\ binding \in Bindings
    /\ cred \in 0 .. MaxGrant /\ grants \in 0 .. MaxGrant
    /\ saved \in 0 .. MaxGrant /\ revoked \in 0 .. MaxGrant
    /\ syncCred \in BOOLEAN /\ challenge \in BOOLEAN
    /\ refreshLock \in Lock
    /\ proc \in [Proc -> Commands]
    /\ failures \in 0 .. MaxFailures
    /\ causes \subseteq {"credential_race", "stale_status"} /\ overtaken \subseteq Proc

Quiet == \A p \in Proc : at(p) = "idle"

\* Unless two commands change the credential together, a token refresh stores
\* its result after one of them, a roll-back fails or the application ends in
\* between ("credential_race"), the key ring and
\* the database agree when no command is in flight: an account has a credential,
\* and a removed or never completed one leaves none behind
\* (save_connected_account and remove_account restore what they changed).
CredentialFollowsAccount ==
    Quiet /\ provider # "cloudflare_r2"
          /\ "credential_race" \notin causes
        => (cred # NoCred <=> account = "live")

\* The credential in use is that of the last authorization reported as done:
\* token refreshes by concurrent requests keep the grant, unless one that
\* started earlier stores its result late.
LatestGrantKept ==
    Quiet /\ provider # "cloudflare_r2"
          /\ "credential_race" \notin causes
        => cred = saved

\* The binding of a deleted account is disabled, unless an operation that
\* connected before the deletion wrote its status afterwards.
DeletedStaysDisabled ==
    account = "deleted" /\ "stale_status" \notin causes => ~binding.enabled

\* An account that lost its authorization asks for a new one until it gets it:
\* auth_required turns into connected only by an authorization, by a command in
\* flight since before the loss, or where the sync credential is there; and when
\* the provider has refused that one, only by setting the managed account up again.
Moves(p) == proc'[p] # proc[p]
AuthRequiredSticks ==
    [][account = "live" /\ binding.auth = "auth_required" /\ binding'.auth = "connected"
         => \/ saved' # saved
            \/ \E p \in overtaken : Moves(p)
            \/ /\ provider = "cloudflare_r2" /\ syncCred
               /\ binding.err = "none" \/ (\E p \in Proc : at(p) = "managed" /\ Moves(p))]_accountVars

\* refresh_lock is held by a command that is refreshing the token, never by one
\* that ended or failed: the other requests of the account get their turn.  (The
\* Google client has no read timeout, so a refresh that is never answered still
\* holds them all up.)
LockReleased == refreshLock # "free" => at(refreshLock) \in {"refresh", "store"}

\* Key ring, account row, binding and refresh lock agree.
AccountsSafe ==
    /\ AccountsTypeOK
    /\ CredentialFollowsAccount /\ LatestGrantKept
    /\ DeletedStaysDisabled /\ LockReleased
=============================================================================
