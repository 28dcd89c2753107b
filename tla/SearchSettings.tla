--------------------------- MODULE SearchSettings ---------------------------
(***************************************************************************)
(* Web search: the chain of search providers in a setting, the key of      *)
(* Brave in the key ring, the command that saves both (commands/mod.rs),   *)
(* and the tool that loads both and falls back along the chain (web.rs,    *)
(* tools/builtin/web.rs).                                                  *)
(*                                                                         *)
(* A key is the number of the command that brought it, 0 for none.  A      *)
(* write to the key ring that fails may have had its effect.               *)
(***************************************************************************)
EXTENDS Naturals, Sequences, SequencesExt, FiniteSets, FiniteSetsExt

CONSTANTS Savers,     \* commands in flight
          MaxSaves,   \* bound: commands
          MaxSearches \* bound: searches

VARIABLES settings,  \* search_provider_settings: chain and searxng_base_url
          key,       \* the key of Brave
          at,        \* saver -> command and what it has read
          search,    \* the tool call
          causes,    \* races and failures that explain an exception
          saves, searches

vars == <<settings, key, at, search, causes, saves, searches>>

Idle == [step |-> "idle", old |-> 0, want |-> 0, changes |-> FALSE, new |-> [chain |-> <<>>, url |-> FALSE]]
NoSearch == [step |-> "idle", chain |-> <<>>, url |-> FALSE, key |-> 0, answers |-> <<>>,
             next |-> 1, empty |-> 0, found |-> 0]

Init ==
    /\ settings = [chain |-> <<"bing">>, url |-> FALSE] /\ key = 0
    /\ at = [s \in Savers |-> Idle] /\ search = NoSearch
    /\ causes = {} /\ saves = 0 /\ searches = 0

Go(s, step) == at' = [at EXCEPT ![s].step = step]
Done(s) == at' = [at EXCEPT ![s] = Idle]
Fail(what) == causes = {} /\ causes' = {what}

\* What normalize accepts: no duplicates, not empty, an address for SearXNG.
Normal(new) ==
    /\ new.chain # <<>> /\ IsInjective(new.chain)
    /\ Contains(new.chain, "searxng") => new.url

Chains == {<<"bing">>, <<"brave", "bing">>, <<"searxng", "brave">>}

\* Read and decide: a chain with Brave needs a key, given now or before.
persist_search_provider_settings(s) ==
    /\ at[s] = Idle /\ saves < MaxSaves /\ saves' = saves + 1
    /\ \E new \in [chain : Chains, url : BOOLEAN], action \in {"keep", "clear", "replace"} :
         LET want == CASE action = "keep" -> key
                       [] action = "clear" -> 0
                       [] action = "replace" -> saves + 1
         IN /\ Normal(new)
            /\ Contains(new.chain, "brave") => want # 0
            /\ at' = [at EXCEPT ![s] = [step |-> IF action = "keep" THEN "save" ELSE "write_key",
                                        old |-> key, want |-> want, changes |-> action # "keep", new |-> new]]
    /\ causes' = IF \E t \in Savers : at[t] # Idle THEN causes \cup {"overlap"} ELSE causes
    /\ UNCHANGED <<settings, key, search, searches>>

\* A failed write is not undone.
write_key(s) ==
    /\ at[s].step = "write_key"
    /\ \/ key' = at[s].want /\ Go(s, "verify_key") /\ UNCHANGED causes
       \/ Fail("key") /\ Done(s) /\ key' \in {key, at[s].want}
    /\ UNCHANGED <<settings, search, saves, searches>>

restore_secret(s) ==
    /\ Done(s)
    /\ \/ key' = at[s].old /\ UNCHANGED causes
       \/ Fail("undo") /\ UNCHANGED key

\* Another value undoes the write, an unreadable key does not.
verify_key(s) ==
    /\ at[s].step = "verify_key"
    /\ \/ key = at[s].want /\ Go(s, "save") /\ UNCHANGED <<key, causes>>
       \/ key # at[s].want /\ restore_secret(s)
       \/ Fail("key") /\ Done(s) /\ UNCHANGED key
    /\ UNCHANGED <<settings, search, saves, searches>>

\* save_search_provider_settings may fail at any time; it is not an exception.
save(s) ==
    /\ at[s].step = "save"
    /\ \/ settings' = at[s].new /\ Done(s) /\ UNCHANGED <<key, causes>>
       \/ /\ UNCHANGED settings
          /\ IF at[s].changes THEN restore_secret(s) ELSE Done(s) /\ UNCHANGED <<key, causes>>
    /\ UNCHANGED <<search, saves, searches>>

crash ==
    /\ Fail("crash") /\ \E s \in Savers : at[s] # Idle
    /\ at' = [s \in Savers |-> Idle] /\ search' = NoSearch
    /\ UNCHANGED <<settings, key, saves, searches>>

-----------------------------------------------------------------------------
(* The web_search tool with provider "auto": settings, key, providers in   *)
(* turn.                                                                   *)

load_settings ==
    /\ search = NoSearch /\ searches < MaxSearches /\ searches' = searches + 1
    /\ search' = [NoSearch EXCEPT !.step = "key", !.chain = settings.chain, !.url = settings.url]
    /\ UNCHANGED <<settings, key, at, causes, saves>>

load_key ==
    /\ search.step = "key"
    /\ search' = [search EXCEPT !.step = "ask", !.key = IF Contains(search.chain, "brave") THEN key ELSE 0]
    /\ UNCHANGED <<settings, key, at, causes, saves, searches>>

\* create_search_provider
Created(x) == (x = "searxng" => search.url) /\ (x = "brave" => search.key # 0)

ask ==
    /\ search.step = "ask" /\ search.next <= Len(search.chain)
    /\ \E answer \in IF Created(search.chain[search.next]) THEN {"results", "empty", "error"} ELSE {"error"} :
         search' = [search EXCEPT !.answers = Append(@, answer),
                                  !.step = IF answer = "results" THEN "end" ELSE @,
                                  !.next = @ + 1, !.empty = IF answer = "empty" THEN search.next ELSE @,
                                  !.found = IF answer = "results" THEN search.next ELSE @]
    /\ UNCHANGED <<settings, key, at, causes, saves, searches>>

\* No results: the last empty answer, or an error (0).
ask_ends ==
    /\ search.step = "ask" /\ search.next > Len(search.chain)
    /\ search' = [search EXCEPT !.step = "end", !.found = search.empty]
    /\ UNCHANGED <<settings, key, at, causes, saves, searches>>

return ==
    /\ search.step = "end" /\ search' = NoSearch
    /\ UNCHANGED <<settings, key, at, causes, saves, searches>>

Next ==
    \/ \E s \in Savers : persist_search_provider_settings(s) \/ write_key(s) \/ verify_key(s) \/ save(s)
    \/ crash \/ load_settings \/ load_key \/ ask \/ ask_ends \/ return

Spec == Init /\ [][Next]_vars

-----------------------------------------------------------------------------
TypeOK ==
    /\ Normal(settings) /\ key \in Nat
    /\ search.step \in {"idle", "key", "ask", "end"} /\ search.found \in Nat

\* Between commands a chain with Brave has its key, though both are saved one
\* after the other and either may fail: a save that failed has left both as they
\* were.  Exceptions are one failed access to the key ring, a crash, and
\* commands that overlap.
BraveHasKey ==
    ((\A s \in Savers : at[s] = Idle) /\ causes = {} /\ Contains(settings.chain, "brave")) => key # 0

\* A search ends with the first provider of the chain that has results; it says
\* that there are none only when one has answered so, and fails only when every
\* provider has failed, whatever was saved in the meantime.
SearchBest ==
    LET Says(a) == {i \in DOMAIN search.answers : search.answers[i] = a}
    IN search.step = "end" =>
         /\ Says("results") = {} => Len(search.answers) = Len(search.chain)
         /\ search.found = IF Says("results") # {} THEN Min(Says("results"))
                        ELSE IF Says("empty") # {} THEN Max(Says("empty")) ELSE 0

SearchSafe == BraveHasKey /\ SearchBest
=============================================================================
