----------------------------- MODULE LocationUndo -----------------------------
(***************************************************************************)
(* The undo of the settings in the page (public/app.js), with the forms    *)
(* of the locations: each page keeps a list of the locations as it was     *)
(* told last, and a stack of what it can take back.  The undo of an        *)
(* addition deletes the location the page takes to be the new one.         *)
(*                                                                         *)
(* Names and addresses are left out: a location is its id                  *)
(* and, to tell one from a later one with the same id, the number of its   *)
(* creation, which the program does not have.                              *)
(***************************************************************************)
EXTENDS Integers, Sequences, SequencesExt, FiniteSets

CONSTANTS
  Pages,      \* pages of admins
  NewIds,     \* ids a name may give; "internal" is the one of the first start
  UndoLimit,  \* SETTINGS_UNDO_LIMIT
  MaxKeys     \* bound: creations and entries that are numbered

VARIABLES
  sections,  \* the server's locations: [id, key]
  page,      \* per page: known, stack, and the requests it waits for
  keys,      \* history: numbers given
  undone     \* history: [entry, removed]: undos that were done, with the key of what they deleted

undoVars == <<sections, page, keys, undone>>

-------------------------------------------------------------------------------
IdsOf(list) == [i \in 1..Len(list) |-> list[i].id]
Has(id) == \E i \in 1..Len(sections) : sections[i].id = id
Place(id) == CHOOSE i \in 1..Len(sections) : sections[i].id = id
Idle == [stage |-> "none"]

(* What the page makes of an answer without a list of sections. *)
Fallback == {"internal"}

FaultyCreated(answer, known) == answer
(* The one in the answer the page did not know. *)
Created(answer, known) == SelectSeq(answer, LAMBDA id : id \notin known)

FaultyPush(stack, entry) == Append(stack, entry)
(* The oldest entries go when there are more than the limit.               *)
Push(stack, entry) == LET all == Append(stack, entry)
                          more == Len(all) - UndoLimit
                      IN IF more > 0 THEN SubSeq(all, more + 1, Len(all)) ELSE all

Fresh == [known |-> ToSet(IdsOf(sections)), stack |-> <<>>, adding |-> Idle, saving |-> Idle, undoing |-> Idle]
Init == /\ sections = <<[id |-> "internal", key |-> 0]>>
        /\ keys = 0 /\ undone = {}
        /\ page = [p \in Pages |-> Fresh]

-------------------------------------------------------------------------------
(* The form of a new location. *)
Submit(p) == /\ page[p].adding = Idle
             /\ page' = [page EXCEPT ![p].adding = [stage |-> "sent", known |-> page[p].known]]
             /\ UNCHANGED <<sections, keys, undone>>
(* The server adds it at the end, and begins to write the list.  "knew":   *)
(* the page knew every location there was, and none by the new one's id.   *)
ServeAdd(p, id) ==
  LET ids == ToSet(IdsOf(sections))
      add == page[p].adding
  IN /\ add.stage = "sent" /\ id \in NewIds /\ ~Has(id) /\ keys < MaxKeys
     /\ keys' = keys + 1
     /\ sections' = Append(sections, [id |-> id, key |-> keys'])
     /\ page' = [page EXCEPT ![p].adding = [stage |-> "served", known |-> add.known, key |-> keys', own |-> id,
                                            knew |-> ids \subseteq add.known /\ id \notin add.known]]
     /\ UNCHANGED undone
(* The list is stored: the answer is the list of now, with what others     *)
(* added in the meantime and without what they deleted.                    *)
AddStored(p) ==
  LET add == page[p].adding
  IN /\ add.stage = "served"
     /\ page' = [page EXCEPT ![p].adding =
          [stage |-> "answered", known |-> add.known, answer |-> IdsOf(sections), key |-> add.key, own |-> add.own,
           all |-> add.knew /\ [id |-> add.own, key |-> add.key] \in ToSet(sections)]]
     /\ UNCHANGED <<sections, keys, undone>>
(* A write that fails, or a lost answer; the location is there all the same. *)
AddFailed(p) == /\ page[p].adding.stage \in {"sent", "served"}
                /\ page' = [page EXCEPT ![p].adding = Idle]
                /\ UNCHANGED <<sections, keys, undone>>
AddAnswered(p) ==
  LET add == page[p].adding
      new == Created(add.answer, add.known)
  IN /\ add.stage = "answered"
     /\ page' = [page EXCEPT ![p].adding = Idle, ![p].known = ToSet(add.answer),
                             ![p].stack = IF new = <<>> THEN @
                                          ELSE Push(@, [op |-> "add", id |-> Head(new), key |-> add.key,
                                                        own |-> add.own, all |-> add.all])]
     /\ UNCHANGED <<sections, keys, undone>>

(* The button of a location's row: its name is stored, and the one the     *)
(* page knew can be put back.                                              *)
SaveServed(p, id) == /\ page[p].saving = Idle /\ id \in page[p].known /\ Has(id) /\ keys < MaxKeys
                     /\ keys' = keys + 1
                     /\ page' = [page EXCEPT ![p].saving = [stage |-> "served", id |-> id, key |-> keys']]
                     /\ UNCHANGED <<sections, undone>>
SaveAnswered(p) ==
  LET save == page[p].saving
  IN /\ save # Idle
     /\ page' = [page EXCEPT ![p].saving = Idle, ![p].known = ToSet(IdsOf(sections)),
                             ![p].stack = Push(@, [op |-> "save", id |-> save.id, key |-> save.key,
                                                   own |-> save.id, all |-> TRUE])]
     /\ UNCHANGED <<sections, keys, undone>>
SaveFailed(p) == /\ page[p].saving # Idle
                 /\ page' = [page EXCEPT ![p].saving = Idle]
                 /\ UNCHANGED <<sections, keys, undone>>

-------------------------------------------------------------------------------
(* runLatestSettingsUndo *)
PressUndo(p) == /\ page[p].undoing = Idle /\ page[p].stack # <<>>
                /\ page' = [page EXCEPT ![p].undoing = [stage |-> "sent", entry |-> Last(page[p].stack)],
                                        ![p].stack = Front(@)]
                /\ UNCHANGED <<sections, keys, undone>>
Serve(p, stage, known) == page' = [page EXCEPT ![p].undoing = [stage |-> stage, entry |-> @.entry, known |-> known]]
(* The server refuses it, or changes its memory and begins to write.       *)
ServeUndo(p) ==
  LET entry == page[p].undoing.entry
      refused == ~Has(entry.id) \/ (entry.op = "add" /\ Len(sections) = 1)
  IN /\ page[p].undoing.stage = "sent"
     /\ Serve(p, IF refused THEN "refused" ELSE "served", {})
     /\ IF refused \/ entry.op = "save"
        THEN UNCHANGED <<sections, undone>>
        ELSE /\ sections' = RemoveAt(sections, Place(entry.id))
             /\ undone' = undone \cup {[entry |-> entry, removed |-> sections[Place(entry.id)].key]}
     /\ UNCHANGED keys
AnswerUndo(p) ==
  /\ page[p].undoing.stage = "served"
  /\ Serve(p, "done", IF page[p].undoing.entry.op = "add" THEN Fallback ELSE ToSet(IdsOf(sections)))
  /\ UNCHANGED <<sections, keys, undone>>
(* A request or an answer is lost, or a write fails: the page takes it for *)
(* not done, though the location may be gone.                              *)
LostUndo(p) == /\ page[p].undoing.stage \in {"sent", "served"} /\ Serve(p, "refused", {})
               /\ UNCHANGED <<sections, keys, undone>>
UndoDone(p) == /\ page[p].undoing.stage = "done"
               /\ page' = [page EXCEPT ![p].undoing = Idle, ![p].known = page[p].undoing.known]
               /\ UNCHANGED <<sections, keys, undone>>
FaultyBack(stack, entry) == stack
Back(stack, entry) == Append(stack, entry)
UndoFailed(p) == /\ page[p].undoing.stage = "refused"
                 /\ page' = [page EXCEPT ![p].undoing = Idle, ![p].stack = Back(@, page[p].undoing.entry)]
                 /\ UNCHANGED <<sections, keys, undone>>

-------------------------------------------------------------------------------
FaultyDeletable(id) == Has(id)
Deletable(id) == Has(id) /\ Len(sections) > 1
(* The dialog, which tells of the devices; the page reads the list again   *)
(* when the server has written what is left, and does not when that fails. *)
DeleteAsked(p, id) == /\ id \in page[p].known /\ Deletable(id)
                      /\ sections' = RemoveAt(sections, Place(id))
                      /\ UNCHANGED <<page, keys, undone>>
(* The panel of the settings is opened; the page is loaded anew. *)
Load(p) == /\ page' = [page EXCEPT ![p].known = ToSet(IdsOf(sections))]
           /\ UNCHANGED <<sections, keys, undone>>
Reload(p) == /\ page' = [page EXCEPT ![p] = Fresh]
             /\ UNCHANGED <<sections, keys, undone>>

Next == \/ \E p \in Pages : \/ Submit(p) \/ AddStored(p) \/ AddFailed(p) \/ AddAnswered(p)
                            \/ SaveAnswered(p) \/ SaveFailed(p)
                            \/ PressUndo(p) \/ ServeUndo(p) \/ AnswerUndo(p) \/ LostUndo(p)
                            \/ UndoDone(p) \/ UndoFailed(p) \/ Load(p) \/ Reload(p)
                            \/ \E id \in NewIds : ServeAdd(p, id)
                            \/ \E id \in ToSet(IdsOf(sections)) : SaveServed(p, id) \/ DeleteAsked(p, id)

Spec == Init /\ [][Next]_undoVars

-------------------------------------------------------------------------------
Entries(p) == ToSet(page[p].stack)

(* There is always a location, and the stack never grows beyond its limit  *)
(* and the one entry that was in an undo.                                  *)
TypeOK == /\ sections # <<>> /\ IsInjective(IdsOf(sections))
          /\ \A p \in Pages : Len(page[p].stack) <= UndoLimit + 1

(* When a page knew every location as it added one, and nobody deleted that *)
(* one before the answer, its entry is about that one, whoever else added   *)
(* some in the meantime; and its undo never deletes a location that was     *)
(* there before the addition.                                               *)
OwnWhenKnown ==
  /\ \A p \in Pages : \A e \in Entries(p) : e.all => e.id = e.own
  /\ \A u \in undone : u.entry.all => u.entry.id = u.entry.own /\ u.removed >= u.entry.key

(* An undo that is under way and does not succeed is offered again.        *)
UndoIsKept ==
  [][\A p \in Pages :
       page[p].undoing # Idle /\ page'[p].undoing = Idle
         => \/ page[p].undoing.stage = "done"
            \/ page[p].undoing.entry \in ToSet(page'[p].stack)
            \/ page'[p] = Fresh]_undoVars

(* The entry is called "Location add" (src/public/app.js:7815): the undo   *)
(* takes away the location that was added.                                 *)
UndoneIsOwn == \A u \in undone : u.removed = u.entry.key

(* runLatestSettingsUndo (src/public/app.js:691): the latest comes first.  *)
LatestFirst == \A p \in Pages : \A i, j \in 1..Len(page[p].stack) : i < j => page[p].stack[i].key < page[p].stack[j].key
=============================================================================
