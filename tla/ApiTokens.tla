-------------------------------- MODULE ApiTokens --------------------------------
(***************************************************************************)
(* The API tokens: created and revoked by an administrator                 *)
(* (lib/routes/settings.js), accepted and stamped by getUserFromRequest    *)
(* (lib/auth.js), kept in a list of at most API_TOKEN_MAX_COUNT rows, the  *)
(* newest first (lib/tokens.js), and stored by routes, the interval, the   *)
(* shutdown and the factory reset.  Each of them writes the list as it was *)
(* when the write began and waits for its end; no mutex orders the writes, *)
(* so a list may be stored over a newer one (AllDocsAdvance of             *)
(* MCDocuments shows it).  What the model keeps on record is which answers *)
(* no such list can undo: those of changes made while none was under way   *)
(* that knows the token otherwise.  A token's number is the order of its   *)
(* creation.  A list that cannot be read at a start is the subject of      *)
(* ConfigDocuments.                                                        *)
(***************************************************************************)
EXTENDS Naturals, Sequences, SequencesExt, FiniteSetsExt

CONSTANTS
  MaxCount,    \* API_TOKEN_MAX_COUNT
  Lives,       \* the life times administrators choose
  Throttle,    \* how long lastUsedAt may stay behind
  MaxTime,     \* bound: the clock
  MaxTokens,   \* bound: tokens created
  MaxWrites,   \* bound: writes under way at one time
  MaxFaults    \* bound: writes that fail, and crashes

VARIABLES
  now,
  tokens,    \* state.apiTokens
  dirty,     \* state.apiTokensDirty
  due,       \* the interval found the list dirty and waits for the mutex
  writes,    \* the writes under way
  stored,    \* external: the document
  made,      \* tokens created so far
  faults,
  answered,  \* history: the tokens whose creation was answered since the last reset
  gone,      \* history: those that expired, or whose end was answered
  lastUse    \* history: when a token was last accepted since the start

historyVars == <<answered, gone, lastUse>>
vars == <<now, tokens, dirty, due, writes, stored, made, faults, historyVars>>

Id == 1..MaxTokens
Record == [id : Id, expires : Nat, revoked : BOOLEAN, used : Nat]

(* A write: the list it stores, whether that is stored, and the tokens of  *)
(* which its answer says that they are kept ("create") or over ("revoke",  *)
(* "reset") and no older list under way says otherwise.                    *)
Write == [kind : {"create", "revoke", "reset", "flush", "stop"},
          body : Seq(Record), sure : SUBSET Id, landed : BOOLEAN]

IdsIn(list) == {r.id : r \in Range(list)}

(* apiTokenStatus *)
Active(r) == ~r.revoked /\ now < r.expires
ActiveCount == Cardinality({r \in Range(tokens) : Active(r)})

(* sanitizeApiTokenSettings of the newest first. *)
FaultyCut(list) == SubSeq(list, Max({1, Len(list) - MaxCount + 1}), Len(list))
FaultyCutNone(list) == list
Cut(list) == SubSeq(list, 1, Min({MaxCount, Len(list)}))

Pending == {w \in writes : ~w.landed}
Of(kind) == {w \in writes : w.kind = kind}

(* A list under way has the token, not revoked. *)
Revives(i) == \E w \in Pending : \E r \in Range(w.body) : r.id = i /\ ~r.revoked

(* persistApiTokenSettings begins. *)
Begin(kind, others, sure) ==
  /\ Cardinality(writes) < MaxWrites
  /\ writes' = others \cup {[kind |-> kind, body |-> tokens', sure |-> sure, landed |-> FALSE]}
  /\ UNCHANGED <<stored, faults>>

-------------------------------------------------------------------------------
Init == /\ now = 1 /\ tokens = <<>> /\ dirty = FALSE /\ due = FALSE
        /\ writes = {} /\ stored = <<>> /\ made = 0 /\ faults = 0
        /\ answered = {} /\ gone = {} /\ lastUse = [i \in Id |-> 0]

(* POST /api/settings/api/tokens; more active ones than the limit are      *)
(* refused.                                                                *)
Create(life) ==
  /\ made < MaxTokens /\ ActiveCount < MaxCount
  /\ made' = made + 1
  /\ tokens' = Cut(<<[id |-> made', expires |-> now + life, revoked |-> FALSE, used |-> 0]>> \o tokens)
  /\ dirty' = TRUE
  /\ Begin("create", writes, {i \in {made'} : Pending = {}})
  /\ UNCHANGED <<now, due, historyVars>>

Revoke(i) ==
  /\ i \in {r.id : r \in {t \in Range(tokens) : ~t.revoked}}
  /\ tokens' = [k \in DOMAIN tokens |-> IF tokens[k].id = i THEN [tokens[k] EXCEPT !.revoked = TRUE]
                                                            ELSE tokens[k]]
  /\ dirty' = TRUE
  /\ Begin("revoke", writes, {j \in {i} : ~Revives(i)})
  /\ UNCHANGED <<now, due, made, historyVars>>

(* A request with the token; one in a while stamps the record. *)
FaultyStamp(r) == IF lastUse[r.id] = 0 \/ now - lastUse[r.id] >= Throttle THEN now ELSE r.used
Stamp(r) == IF now - r.used >= Throttle THEN now ELSE r.used
Use(k) ==
  /\ k \in DOMAIN tokens /\ Active(tokens[k]) /\ lastUse[tokens[k].id] # now
  /\ tokens' = [tokens EXCEPT ![k].used = Stamp(tokens[k])]
  /\ dirty' = (dirty \/ tokens' # tokens)
  /\ lastUse' = [lastUse EXCEPT ![tokens[k].id] = now]
  /\ UNCHANGED <<now, due, writes, stored, made, faults, answered, gone>>

(* The interval asks for a flush, which writes whatever has become of the  *)
(* flag once the mutex is free; any other flush writes a dirty list.       *)
Due == dirty /\ ~due /\ due' = TRUE
       /\ UNCHANGED <<now, tokens, dirty, writes, stored, made, faults, historyVars>>
Flush == /\ dirty \/ due
         /\ Of("flush") = {}
         /\ tokens' = tokens /\ due' = FALSE
         /\ Begin("flush", writes, {})
         /\ UNCHANGED <<now, dirty, made, historyVars>>

(* A signal: the last flush takes no mutex. *)
Stop == /\ Of("stop") = {}
        /\ tokens' = tokens
        /\ Begin("stop", writes, {})
        /\ UNCHANGED <<now, dirty, due, made, historyVars>>

(* The factory reset; its bound is one at a time.  It forgets the tokens   *)
(* whose creation is about to be answered.                                 *)
FactoryReset ==
  /\ tokens # <<>> /\ Of("reset") = {}
  /\ tokens' = <<>> /\ dirty' = FALSE
  /\ Begin("reset", {IF w.kind = "create" THEN [w EXCEPT !.sure = {}] ELSE w : w \in writes},
           {i \in 1..made : ~Revives(i)})
  /\ answered' = {}
  /\ UNCHANGED <<now, due, made, gone, lastUse>>

(* The list of a write is stored. *)
Land(w) == /\ w \in Pending
           /\ stored' = w.body
           /\ writes' = (writes \ {w}) \cup {[w EXCEPT !.landed = TRUE]}
           /\ UNCHANGED <<now, tokens, dirty, due, made, faults, historyVars>>

(* The write ends: the flag is cleared, whatever changed meanwhile, and a  *)
(* route answers.                                                          *)
Done(w) ==
  /\ w \in writes \ Of("stop") /\ w.landed
  /\ writes' = writes \ {w}
  /\ dirty' = (dirty /\ w.kind = "reset")
  /\ answered' = IF w.kind = "create" THEN answered \cup w.sure ELSE answered
  /\ gone' = IF w.kind \in {"revoke", "reset"} THEN gone \cup w.sure ELSE gone
  /\ UNCHANGED <<now, tokens, due, stored, made, faults, lastUse>>

(* A write fails, and may have stored the list all the same.  A reset also *)
(* fails when another of its documents does, and waits no longer for this  *)
(* one.                                                                    *)
Failed(w) ==
  /\ w \in writes \ Of("stop") /\ faults < MaxFaults /\ faults' = faults + 1
  /\ writes' \in {writes \ {w}} \cup
                 {(writes \ {w}) \cup {[v EXCEPT !.sure = {}]} : v \in {w} \cap Of("reset")}
  /\ UNCHANGED <<now, tokens, dirty, due, stored, made, historyVars>>

(* The process starts again: after the last flush, or without one.  The    *)
(* writes under way are lost.                                              *)
Restart == /\ tokens' = stored /\ dirty' = FALSE /\ due' = FALSE /\ writes' = {}
           /\ lastUse' = [i \in Id |-> 0]
           /\ UNCHANGED <<now, stored, made, answered, gone>>
Exit == /\ \E w \in Of("stop") : w.landed
        /\ Restart /\ UNCHANGED faults
Crash == /\ faults < MaxFaults /\ faults' = faults + 1
         /\ Restart

Tick == /\ now < MaxTime /\ now' = now + 1
        /\ gone' = gone \cup {r.id : r \in {t \in Range(tokens) : t.expires <= now'}}
        /\ UNCHANGED <<tokens, dirty, due, writes, stored, made, faults, answered, lastUse>>

Next == \/ \E life \in Lives : Create(life)
        \/ \E i \in Id : Revoke(i)
        \/ \E k \in 1..MaxCount : Use(k)
        \/ Due \/ Flush \/ Stop \/ FactoryReset
        \/ \E w \in writes : Land(w) \/ Done(w) \/ Failed(w)
        \/ Exit \/ Crash \/ Tick

Spec == Init /\ [][Next]_vars

-------------------------------------------------------------------------------
TypeOK ==
  /\ now \in 1..MaxTime /\ made \in 0..MaxTokens /\ faults \in 0..MaxFaults
  /\ tokens \in Seq(Record) /\ Len(tokens) <= MaxCount
  /\ \A i, j \in DOMAIN tokens : tokens[i].id = tokens[j].id => i = j
  /\ stored \in Seq(Record) /\ Len(stored) <= MaxCount
  /\ writes \subseteq Write

(* A token that has expired, or whose revocation or reset was answered, is *)
(* never accepted again, whatever fails and restarts: unless it was revoked*)
(* while an older list was under way that still accepts it.                *)
GoneForGood == \A r \in Range(tokens) : r.id \in gone => ~Active(r)

(* A token whose creation was answered stays in the list until a reset, or *)
(* until as many newer ones as the list holds push it out: unless an older *)
(* list was under way when it was created.                                 *)
KeptUnlessCrowded ==
  \A i \in answered \ IdsIn(tokens) : made - i >= MaxCount

(* The time shown as the last use is less than Throttle behind the last    *)
(* use since the start.                                                    *)
StampIsClose ==
  \A r \in Range(tokens) : lastUse[r.id] # 0 => r.used <= lastUse[r.id] /\ lastUse[r.id] - r.used < Throttle

(* An active token is not pushed out: at the limit a new one is refused. *)
ActiveStays ==
  [][\A r \in Range(tokens) : Active(r) /\ made' # made => r.id \in IdsIn(tokens')]_vars
=============================================================================
