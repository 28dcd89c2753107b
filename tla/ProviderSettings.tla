-------------------------- MODULE ProviderSettings --------------------------
(***************************************************************************)
(* Model providers: rows in SQLite, API keys in the key ring, model roles  *)
(* in a setting (upsert_provider, delete_provider and set_model_roles of   *)
(* commands/mod.rs, model_registry.rs, db/repo/model_providers.rs), the    *)
(* start that moves keys of old versions into the key ring (secrets.rs),   *)
(* and a chat that resolves its provider while commands run.               *)
(*                                                                         *)
(* Every await is a step of its own.  A key is the number of the command   *)
(* that brought it, 0 for none; a failed access to the key ring may have   *)
(* had its effect.                                                         *)
(***************************************************************************)
EXTENDS Naturals, FiniteSets

CONSTANTS Slots,      \* commands in flight
          Providers,
          Models,
          MaxSaves,   \* bound: commands
          MaxFaults   \* bound: failed accesses, crashes and overlapping commands

VARIABLES rows,     \* model_providers
          keys,     \* the key ring
          legacy,   \* settings "provider:...:api_key" of old versions
          roles,    \* model_roles: the selections <<provider, model>>
          started,  \* the start has moved the keys, or failed to
          at,       \* slot -> command and what it has read
          chat,     \* resolve_llm: the row and the key it has read
          mixed,    \* a chat was given an endpoint and the key of another one
          causes,   \* races and failures that explain an exception
          saves, faults

vars == <<rows, keys, legacy, roles, started, at, chat, mixed, causes, saves, faults>>

\* A row stands for its endpoint too: key is the key it was saved with.
NoRow == [live |-> FALSE, models |-> {}, default |-> FALSE, key |-> 0]
Idle == [step |-> "idle", p |-> "", old |-> 0, key |-> 0, models |-> {}, default |-> FALSE, roles |-> {}]
NoChat == [p |-> "", saved |-> 0]

Old == 1000

\* Providers of an old version keep their keys in settings.
Init ==
    /\ \E known \in SUBSET Providers : \E old \in SUBSET known :
         /\ rows = [p \in Providers |->
                      IF p \in known THEN [live |-> TRUE, models |-> Models, default |-> FALSE, key |-> Old]
                      ELSE NoRow]
         /\ legacy = [p \in Providers |-> IF p \in old THEN Old ELSE 0]
         /\ keys = [p \in Providers |-> IF p \in known \ old THEN Old ELSE 0]
         /\ roles = known \X Models
    /\ started = FALSE /\ at = [s \in Slots |-> Idle] /\ chat = NoChat
    /\ mixed = FALSE /\ causes = {} /\ saves = 0 /\ faults = 0

Exists(p) == rows[p].live
Go(s, step) == at' = [at EXCEPT ![s].step = step]
Done(s) == at' = [at EXCEPT ![s] = Idle]
Fail == faults < MaxFaults /\ faults' = faults + 1
Excused(p) == \E x \in causes : x[2] = p
Cause(what, p) == causes' = causes \cup {<<what, p>>}

\* A command that starts while another one is in flight: they may load and save
\* the roles in any order, and share more when it is of the same provider.
Overlaps(p) ==
    LET others == {t \in Slots : at[t] # Idle}
    IN {<<"roles", "">> : t \in others} \cup {<<"overlap", p>> : t \in {u \in others : at[u].p = p}}
Starts(s, p, cmd) ==
    /\ started /\ at[s] = Idle /\ saves < MaxSaves /\ saves' = saves + 1
    /\ at' = [at EXCEPT ![s] = cmd]
    /\ chat' = IF chat.p = p /\ cmd.key # 0 THEN NoChat ELSE chat
    /\ causes' = causes \cup Overlaps(p)
    /\ IF Overlaps(p) = {} THEN UNCHANGED faults ELSE Fail

\* The command fails and puts the previous key back, which may fail as well.
restore_secret(s) ==
    LET p == at[s].p
    IN /\ Done(s)
       /\ \/ keys' = [keys EXCEPT ![p] = at[s].old] /\ UNCHANGED causes
          \/ UNCHANGED keys /\ Cause("undo", p)

-----------------------------------------------------------------------------
(* upsert_provider: key, verification, row, roles.                         *)

upsert_provider(s, p) ==
    /\ \E models \in {{}, Models}, default \in BOOLEAN :
         LET cmd == [Idle EXCEPT !.step = "upsert", !.p = p, !.models = models, !.default = default]
         IN \/ Starts(s, p, cmd)
            \/ Starts(s, p, [cmd EXCEPT !.step = "set_key", !.old = keys[p], !.key = saves + 1])
    /\ UNCHANGED <<rows, keys, legacy, roles, started, mixed>>

set_key(s) ==
    /\ at[s].step = "set_key"
    /\ \/ keys' = [keys EXCEPT ![at[s].p] = at[s].key] /\ Go(s, "verify_key") /\ UNCHANGED <<causes, faults>>
       \/ Fail /\ restore_secret(s)
    /\ UNCHANGED <<rows, legacy, roles, started, chat, mixed, saves>>

verify_key(s) ==
    /\ at[s].step = "verify_key"
    /\ \/ keys[at[s].p] = at[s].key /\ Go(s, "upsert") /\ UNCHANGED <<keys, causes, faults>>
       \/ (Fail \/ (keys[at[s].p] # at[s].key /\ UNCHANGED faults)) /\ restore_secret(s)
    /\ UNCHANGED <<rows, legacy, roles, started, chat, mixed, saves>>

clear_default(table) == [p \in Providers |-> [table[p] EXCEPT !.default = FALSE]]

\* Not a transaction: the default may be cleared and the row not written.
upsert(s) ==
    LET p == at[s].p
        cleared == IF at[s].default THEN clear_default(rows) ELSE rows
    IN /\ at[s].step = "upsert"
       /\ \/ /\ rows' = [cleared EXCEPT ![p] = [live |-> TRUE, models |-> at[s].models, default |-> at[s].default,
                                              key |-> IF keys[p] = 0 THEN legacy[p] ELSE keys[p]]]
             /\ Go(s, "load_roles") /\ UNCHANGED <<keys, causes, faults>>
          \/ /\ Fail /\ rows' \in {rows, cleared}
             /\ IF at[s].key # 0 THEN restore_secret(s) ELSE Done(s) /\ UNCHANGED <<keys, causes>>
       /\ UNCHANGED <<legacy, roles, started, chat, mixed, saves>>

\* clear_provider and retain_valid_provider_models; the roles that are saved
\* are those that were read, whatever has happened to the setting since.
retain_valid_provider_models(selections, p, models) ==
    {x \in selections : x[1] = p => x[2] \in models}

load_roles(s) ==
    /\ at[s].step = "load_roles"
    /\ \/ at' = [at EXCEPT ![s].step = "save_roles",
                           ![s].roles = retain_valid_provider_models(roles, at[s].p, at[s].models)]
          /\ UNCHANGED <<causes, faults>>
       \/ Fail /\ Cause("roles", "") /\ Done(s)
    /\ UNCHANGED <<rows, keys, legacy, roles, started, chat, mixed, saves>>

save_roles(s) ==
    /\ at[s].step = "save_roles"
    /\ \/ roles' = at[s].roles /\ UNCHANGED <<causes, faults>>
       \/ Fail /\ Cause("roles", "") /\ UNCHANGED roles
    /\ Done(s)
    /\ UNCHANGED <<rows, keys, legacy, started, chat, mixed, saves>>

-----------------------------------------------------------------------------
(* delete_provider: key, row, roles.                                       *)

delete_provider(s, p) ==
    /\ Exists(p)
    /\ Starts(s, p, [Idle EXCEPT !.step = "delete_key", !.p = p, !.old = keys[p]])
    /\ UNCHANGED <<rows, keys, legacy, roles, started, mixed>>

delete_key(s) ==
    LET p == at[s].p
    IN /\ at[s].step = "delete_key"
       /\ \/ keys' = [keys EXCEPT ![p] = 0] /\ Go(s, "delete_row") /\ UNCHANGED <<causes, faults>>
          \/ /\ Fail /\ Done(s)
             /\ \/ UNCHANGED <<keys, causes>>
                \/ keys' = [keys EXCEPT ![p] = 0] /\ Cause("undo", p)
       /\ UNCHANGED <<rows, legacy, roles, started, chat, mixed, saves>>

delete_row(s) ==
    LET p == at[s].p
    IN /\ at[s].step = "delete_row"
       /\ \/ rows' = [rows EXCEPT ![p] = NoRow] /\ Go(s, "load_roles") /\ UNCHANGED <<keys, causes, faults>>
          \/ Fail /\ restore_secret(s) /\ UNCHANGED rows
       /\ UNCHANGED <<legacy, roles, started, chat, mixed, saves>>

\* Every selection is checked against the providers, then all are saved.
set_model_roles(s) ==
    /\ started /\ at[s] = Idle /\ saves < MaxSaves /\ saves' = saves + 1
    /\ \E new \in SUBSET (Providers \X Models) :
         /\ \A x \in new : x[2] \in rows[x[1]].models
         /\ at' = [at EXCEPT ![s].step = "save_roles", ![s].roles = new]
    /\ causes' = causes \cup Overlaps("")
    /\ IF Overlaps("") = {} THEN UNCHANGED faults ELSE Fail
    /\ UNCHANGED <<rows, keys, legacy, roles, started, chat, mixed>>

-----------------------------------------------------------------------------
(* A chat resolves its provider: resolve_llm, resolve_routed_llm_config.   *)

resolve_row ==
    /\ started /\ chat = NoChat
    /\ \E p \in Providers :
         /\ Exists(p) /\ legacy[p] = 0
         /\ \A s \in Slots : at[s].p = p => at[s].key = 0
         /\ chat' = [p |-> p, saved |-> rows[p].key]
    /\ UNCHANGED <<rows, keys, legacy, roles, started, at, mixed, causes, saves, faults>>

resolve_key ==
    /\ chat # NoChat /\ chat' = NoChat
    /\ mixed' = (mixed \/ (keys[chat.p] \notin {0, chat.saved} /\ ~Excused(chat.p)))
    /\ UNCHANGED <<rows, keys, legacy, roles, started, at, mixed, causes, saves, faults>>

-----------------------------------------------------------------------------
(* The start, before any command: one key after the other.                 *)

\* The legacy value goes only when the key ring has been read back with it.
migrate_legacy_provider_api_keys(p) ==
    /\ ~started /\ legacy[p] # 0
    /\ \/ keys[p] = 0 /\ keys' = [keys EXCEPT ![p] = legacy[p]] /\ UNCHANGED <<legacy, started, faults>>
       \/ keys[p] = legacy[p] /\ legacy' = [legacy EXCEPT ![p] = 0] /\ UNCHANGED <<keys, started, faults>>
       \/ keys[p] \notin {0, legacy[p]} /\ started' = TRUE /\ UNCHANGED <<keys, legacy, faults>>
       \/ /\ Fail /\ started' = TRUE /\ UNCHANGED legacy
          /\ keys' = keys \/ (keys[p] = 0 /\ keys' = [keys EXCEPT ![p] = legacy[p]])
    /\ UNCHANGED <<rows, roles, at, chat, mixed, causes, saves>>

start ==
    /\ ~started /\ \A p \in Providers : legacy[p] = 0
    /\ started' = TRUE
    /\ UNCHANGED <<rows, keys, legacy, roles, at, chat, mixed, causes, saves, faults>>

crash ==
    /\ Fail
    /\ causes' = causes \cup {<<"crash", at[s].p>> : s \in Slots}
    /\ at' = [s \in Slots |-> Idle] /\ chat' = NoChat /\ started' = FALSE
    /\ UNCHANGED <<rows, keys, legacy, roles, mixed, saves>>

Next ==
    \/ \E s \in Slots :
         \/ \E p \in Providers : upsert_provider(s, p) \/ delete_provider(s, p)
         \/ set_key(s) \/ verify_key(s) \/ upsert(s) \/ load_roles(s) \/ save_roles(s)
         \/ delete_key(s) \/ delete_row(s) \/ set_model_roles(s)
    \/ resolve_row \/ resolve_key
    \/ \E p \in Providers : migrate_legacy_provider_api_keys(p)
    \/ start \/ crash

Spec == Init /\ [][Next]_vars

-----------------------------------------------------------------------------
TypeOK ==
    /\ \A p \in Providers : keys[p] \in Nat /\ legacy[p] \in {0, Old} /\ rows[p].key \in Nat
    /\ roles \subseteq Providers \X Models
    /\ \A s \in Slots : at[s].p \in Providers \cup {""}

Quiet(p) == ~Excused(p) /\ \A s \in Slots : at[s].p # p

\* Between commands the key in the key ring is the one the row was saved with,
\* and a provider that is gone has none: a command that failed at any step has
\* put back what it had changed.  Exceptions are an undo that failed as well, a
\* crash, and overlapping commands on one provider.
KeyOfRow ==
    \A p \in Providers : (Quiet(p) /\ started /\ legacy[p] = 0) => keys[p] = rows[p].key

\* A chat is given an endpoint and a key that were saved together, though it
\* reads them one after the other: a key never goes to another endpoint, unless
\* the key is being replaced while the chat resolves its provider.
ChatConsistent == ~mixed

\* At most one provider is the default.
OneDefault == Cardinality({p \in Providers : rows[p].default}) <= 1

\* A key of an old version is never lost by the move into the key ring,
\* wherever it fails or the application ends.
LegacyKeyKept ==
    \A p \in Providers : (Quiet(p) /\ rows[p].key = Old) => Old \in {legacy[p], keys[p]}

\* Between commands no role names a provider or model that is gone.  Exceptions:
\* the roles could not be saved, a crash, and commands that overlapped.
RolesExist ==
    ((\A s \in Slots : at[s] = Idle) /\ causes = {}) => \A x \in roles : x[2] \in rows[x[1]].models

ProvidersSafe == KeyOfRow /\ ChatConsistent /\ OneDefault /\ LegacyKeyKept /\ RolesExist
=============================================================================
