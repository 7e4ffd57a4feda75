----------------------------- MODULE ConfigDocuments -----------------------------
(***************************************************************************)
(* The documents of settings: held in memory, written whole by the routes  *)
(* that change them (lib/routes/settings.js, lib/routes/backup.js), by     *)
(* performFactoryResetForDeployment (lib/agent.js) all at once, and by a   *)
(* backup import one after the other; read back at a start (lib/settings.js, *)
(* loadState of server.js), where a document that cannot be read becomes   *)
(* the default and all but some are reported in configIntegrityState.      *)
(*                                                                         *)
(* No mutex orders these writes: two of one document may land either way   *)
(* round.  The value of a document is the number of the request that made  *)
(* it, 0 for the baseline.  Sites, users and events, which are written     *)
(* under mutexes, are in StatePersistence and UsersDocument.               *)
(***************************************************************************)
EXTENDS Naturals, Sequences, SequencesExt, FiniteSets, Functions

CONSTANTS
  Doc,         \* the documents
  ResetDocs,   \* those the factory reset replaces
  ImportDocs,  \* those an import replaces, in the order it writes them
  Reported,    \* those whose reading is reported
  Needed,      \* those without which the server does not start
  MaxEdits,    \* bound: requests
  MaxJobs,     \* bound: requests under way
  MaxFails     \* bound: writes that fail, starts that cannot read everything

Imported == Range(ImportDocs)

VARIABLES
  mem,        \* shared.*, state.devices, state.apiTokens
  stored,     \* external: the rows of cajal_store
  integrity,  \* configIntegrityState: the documents reported as failed
  jobs,       \* requests whose writes are under way
  edits,      \* requests so far
  fails,      \* failures so far
  raced,      \* history: documents whose last writes overlapped
  unsaved,    \* history: documents whose last write failed or was not begun, or that were not read
  promised,   \* history: the documents whose last request was answered "ok", with its value
  blind,      \* history: documents that could not be read and were not saved since
  cleared,    \* history: a factory reset cleared the reports since the start
  wiped       \* history: the last request was a factory reset, answered "ok"

vars == <<mem, stored, integrity, jobs, edits, fails, raced, unsaved, promised, blind, cleared, wiped>>

Value == 0..MaxEdits

(* A request whose writes are under way: the documents still to be begun,  *)
(* what is being written, what has been, and whether a write failed.       *)
Job(kind, queue, flight) ==
  [kind |-> kind, queue |-> queue, flight |-> flight, wrote |-> <<>>, failed |-> FALSE]

Flying(d) == {i \in DOMAIN jobs : d \in DOMAIN jobs[i].flight}

UnderWay == {d \in Doc : Flying(d) # {}}

Less(f, D) == Restrict(f, DOMAIN f \ D)

(* The history when writes of D begin: what was promised of D, and will be *)
(* of the requests under way, no longer binds.                             *)
Begun(D) == /\ raced' = (raced \ D) \cup {d \in D : Flying(d) # {}}
            /\ unsaved' = unsaved \ D
            /\ promised' = Less(promised, D)
Superseded(D) == [i \in DOMAIN jobs |-> [jobs[i] EXCEPT !.wrote = Less(@, D)]]

-------------------------------------------------------------------------------
Init == /\ mem = [d \in Doc |-> 0]
        /\ stored = mem
        /\ integrity = {}
        /\ jobs = <<>>
        /\ edits = 0 /\ fails = 0
        /\ raced = {} /\ unsaved = {} /\ blind = {}
        /\ promised = <<>>
        /\ cleared = FALSE /\ wiped = FALSE

MayStart == edits < MaxEdits /\ Len(jobs) < MaxJobs

(* A PATCH, POST or DELETE that changes document d. *)
Patch(d) ==
  LET v == edits + 1
  IN /\ MayStart
     /\ mem' = [mem EXCEPT ![d] = v]
     /\ jobs' = Append(Superseded({d}), Job("patch", <<>>, [x \in {d} |-> v]))
     /\ Begun({d})
     /\ edits' = v /\ wiped' = FALSE
     /\ UNCHANGED <<stored, integrity, fails, blind, cleared>>

(* The import replaces its documents in memory and begins the first write. *)
Import ==
  LET v == edits + 1 first == Head(ImportDocs)
  IN /\ MayStart
     /\ mem' = [d \in Doc |-> IF d \in Imported THEN v ELSE mem[d]]
     /\ jobs' = Append(Superseded({first}), Job("import", Tail(ImportDocs), [x \in {first} |-> v]))
     /\ Begun({first})
     /\ edits' = v /\ wiped' = FALSE
     /\ UNCHANGED <<stored, integrity, fails, blind, cleared>>

(* The factory reset: all in memory, no report is left, all writes begin.  *)
FactoryReset ==
  /\ MayStart
  /\ mem' = [d \in Doc |-> IF d \in ResetDocs THEN 0 ELSE mem[d]]
  /\ integrity' = {}
  /\ jobs' = Append(Superseded(ResetDocs), Job("reset", <<>>, [d \in ResetDocs |-> 0]))
  /\ Begun(ResetDocs)
  /\ edits' = edits + 1
  /\ cleared' = TRUE /\ wiped' = FALSE
  /\ UNCHANGED <<stored, fails, blind>>

(* What job j looks like after its write of d: an import goes on with its  *)
(* next document, as that is in memory by then.  A request of which one    *)
(* write failed begins no other and ends with the writes under way.        *)
FaultyAdvancedTwice(j, d, ok) == [j EXCEPT !.wrote = [x \in DOMAIN @ \cup {d} |-> j.flight[d]]]
FaultyAdvancedCopy(j, d, ok) ==
  LET next == IF ok /\ j.queue # <<>> THEN {Head(j.queue)} ELSE {}
  IN [j EXCEPT !.queue = IF next # {} THEN Tail(@) ELSE <<>>,
               !.flight = [x \in next |-> j.flight[d]],
               !.wrote = IF ok THEN [x \in DOMAIN @ \cup {d} |-> j.flight[d]] ELSE @,
               !.failed = @ \/ ~ok]
FaultyAdvancedSwallowed(j, d, ok) ==
  [j EXCEPT !.queue = <<>>, !.flight = Less(@, {d}),
            !.wrote = [x \in DOMAIN @ \cup {d} |-> j.flight[d]]]
Advanced(j, d, ok) ==
  LET going == ok /\ j.queue # <<>>
      next == IF going THEN {Head(j.queue)} ELSE {}
      rest == Less(j.flight, {d})
  IN [j EXCEPT !.queue = IF going THEN Tail(@) ELSE <<>>,
               !.flight = [x \in DOMAIN rest \cup next |-> IF x \in next THEN mem[x] ELSE rest[x]],
               !.wrote = IF ok THEN [x \in DOMAIN @ \cup {d} |-> IF x = d THEN j.flight[d] ELSE @[x]]
                               ELSE @,
               !.failed = @ \/ ~ok]

(* A request is answered: what it wrote is promised.                       *)
Answer(j, p) == IF j.failed THEN p
                ELSE [x \in DOMAIN p \cup (DOMAIN j.wrote \ raced') |->
                        IF x \in DOMAIN j.wrote THEN j.wrote[x] ELSE p[x]]

(* The write of d of request i ends; ok: it landed.                        *)
WriteEnds(i, d, ok) ==
  LET j == jobs[i]
      n == Advanced(j, d, ok)
      begun == DOMAIN n.flight \ DOMAIN j.flight
      lasting == Less(promised, begun)
  IN /\ d \in DOMAIN j.flight
     /\ ok \/ fails < MaxFails
     /\ stored' = IF ok THEN [stored EXCEPT ![d] = j.flight[d]] ELSE stored
     /\ integrity' = IF ok THEN integrity \ {d} ELSE integrity
     /\ blind' = IF ok THEN blind \ {d} ELSE blind
     /\ raced' = (raced \ begun) \cup {x \in begun : Flying(x) # {}}
     /\ unsaved' = IF ok THEN unsaved \ begun ELSE unsaved \cup {d} \cup Range(j.queue)
     /\ fails' = IF ok THEN fails ELSE fails + 1
     /\ IF DOMAIN n.flight = {}
          THEN /\ jobs' = RemoveAt(jobs, i)
               /\ promised' = Answer(n, lasting)
               /\ wiped' = (wiped \/ (j.kind = "reset" /\ ~n.failed /\ Len(jobs) = 1))
          ELSE /\ jobs' = ReplaceAt(Superseded(begun), i, n)
               /\ promised' = lasting
               /\ UNCHANGED wiped
     /\ UNCHANGED <<mem, edits, cleared>>

(* What is reported when the documents of "bad" cannot be read.            *)
FaultyReport(bad) == {}
Report(bad) == bad \cap Reported

(* The server stops or crashes, and starts again.  last: the request whose *)
(* write of a document was the last to land, 0 for none under way; bad:    *)
(* what cannot be read, for want of the key or of an answer.               *)
Restart(bad, last) ==
  /\ fails < MaxFails
  /\ \A d \in DOMAIN last : last[d] \in {0} \cup Flying(d)
  /\ stored' = [d \in Doc |-> IF d \in DOMAIN last /\ last[d] # 0
                                THEN jobs[last[d]].flight[d] ELSE stored[d]]
  /\ mem' = [d \in Doc |-> IF d \in bad THEN 0 ELSE stored'[d]]
  /\ integrity' = Report(bad)
  /\ blind' = bad
  /\ raced' = {} /\ unsaved' = bad
  /\ jobs' = <<>>
  /\ fails' = fails + 1
  /\ promised' = Less(promised, raced)
  /\ cleared' = FALSE /\ wiped' = FALSE
  /\ UNCHANGED edits

Next == \/ \E d \in Doc : Patch(d)
        \/ Import
        \/ FactoryReset
        \/ \E i \in DOMAIN jobs, ok \in BOOLEAN : \E d \in Doc : WriteEnds(i, d, ok)
        \/ \E bad \in SUBSET (Doc \ Needed), last \in [UnderWay -> 0..Len(jobs)] : Restart(bad, last)

Spec == Init /\ [][Next]_vars

-------------------------------------------------------------------------------
TypeOK ==
  /\ mem \in [Doc -> Value] /\ stored \in [Doc -> Value]
  /\ integrity \subseteq Reported /\ raced \subseteq Doc /\ unsaved \subseteq Doc /\ blind \subseteq Doc
  /\ \A i \in DOMAIN jobs : /\ DOMAIN jobs[i].flight # {}
                            /\ DOMAIN jobs[i].flight \cap DOMAIN jobs[i].wrote = {}
                            /\ jobs[i].failed => jobs[i].queue = <<>>
  /\ edits \in 0..MaxEdits /\ fails \in 0..MaxFails
  /\ cleared \in BOOLEAN /\ wiped \in BOOLEAN

(* A document no write of which is under way or waits its turn is stored   *)
(* as it is in memory, unless writes of it overlapped, the last failed, or *)
(* it could not be read.                                                   *)
Awaited(d) == \E i \in DOMAIN jobs : d \in DOMAIN jobs[i].flight \/ d \in Range(jobs[i].queue)
StoredUnlessRaced == \A d \in Doc \ (raced \cup unsaved) : Awaited(d) \/ stored[d] = mem[d]

(* What a request was told to be saved stays stored, over restarts too,    *)
(* until another request writes the document, unless writes overlapped.    *)
AnsweredIsStored == \A d \in DOMAIN promised : d \in raced \/ stored[d] = promised[d]

(* A document that could not be read, and whose default the next save will *)
(* put in its place, is reported, unless a factory reset cleared the       *)
(* reports.                                                                *)
UnreadIsReported == blind \cap Reported \subseteq integrity \/ cleared

(* A factory reset that was answered has put every document back.          *)
ResetWipes == wiped => \A d \in Doc : mem[d] = 0 /\ (d \in raced \/ stored[d] = 0)
=============================================================================
