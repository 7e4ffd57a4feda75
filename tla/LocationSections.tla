--------------------------- MODULE LocationSections ---------------------------
(***************************************************************************)
(* The locations the sites belong to (lib/routes/settings.js and           *)
(* sanitizeLocationSettings in lib/settings.js): a list of sections with   *)
(* ids and names, and two labels from the time there were two of them, the *)
(* names of the first and the second.  Every operation ends by making the  *)
(* document whole again.                                                   *)
(*                                                                         *)
(* A handler runs without a pause up to the write; what the document is    *)
(* after a write that fails is in ConfigDocuments.                         *)
(***************************************************************************)
EXTENDS Naturals, Sequences, SequencesExt, FiniteSetsExt

CONSTANTS
  Names,       \* names somebody may give; "" is none
  MaxSections  \* bound: sections

VARIABLES
  settings,  \* shared.locationSettings
  last       \* history: the last operation, what it was about, and what was before

sectionVars == <<settings, last>>

-------------------------------------------------------------------------------
IdsIn(c) == {c.sections[i].id : i \in 1..Len(c.sections)}
Place(c, id) == CHOOSE i \in 1..Len(c.sections) : c.sections[i].id = id
Clean(value, fallback) == IF value = "" THEN fallback ELSE value

(* A section without a name is dropped; there is always one. *)
Whole(c) ==
  LET named == SelectSeq(c.sections, LAMBDA s : s.name # "")
  IN IF named # <<>> THEN named ELSE <<[id |-> <<"internal", 0>>, name |-> c.internal]>>

Labels(c, whole) == [internal |-> Clean(c.internal, whole[1].name),
                     customer |-> IF Len(whole) > 1 THEN Clean(c.customer, whole[2].name) ELSE ""]

(* The labels that are set are the names of the first two sections. *)
Label(labels, whole, i) ==
  IF i = 1 THEN labels.internal ELSE IF i = 2 THEN labels.customer ELSE whole[i].name
Sanitize(c) ==
  LET whole == Whole(c)
      labels == Labels(c, whole)
  IN [internal |-> labels.internal, customer |-> labels.customer,
      sections |-> [i \in 1..Len(whole) |-> [whole[i] EXCEPT !.name = Label(labels, whole, i)]]]

(* The id is made of the name, with a number when it is taken. *)
NewId(c, name) == <<name, Min({k \in 1..(Len(c.sections) + 1) : <<name, k>> \notin IdsIn(c)})>>
Added(c, name) == Sanitize([c EXCEPT !.sections = Append(@, [id |-> NewId(c, name), name |-> name])])
Renamed(c, id, name) == Sanitize([c EXCEPT !.sections[Place(c, id)].name = name])
Labelled(c, internal, customer) == Sanitize([c EXCEPT !.internal = internal, !.customer = customer])
Deleted(c, id) == Sanitize([c EXCEPT !.sections = RemoveAt(@, Place(c, id))])

Default == [internal |-> "Demo Location", customer |-> "",
            sections |-> <<[id |-> <<"internal", 0>>, name |-> "Demo Location"]>>]

Init == /\ settings = Default
        /\ last = [op |-> "none", id |-> <<"internal", 0>>, name |-> "", was |-> Default]

Becomes(op, id, name, c) == /\ settings' = c
                            /\ last' = [op |-> op, id |-> id, name |-> name, was |-> settings]

-------------------------------------------------------------------------------
(* POST, PATCH and DELETE /api/settings/locations/sections.  PATCH takes a *)
(* name that is blank.                                                     *)
AddSection(name) == /\ Len(settings.sections) < MaxSections
                    /\ Becomes("add", NewId(settings, name), name, Added(settings, name))
RenameSection(id, name) == /\ id \in IdsIn(settings)
                           /\ Becomes("rename", id, name, Renamed(settings, id, name))
DeleteSection(id) == /\ Len(settings.sections) > 1 /\ id \in IdsIn(settings)
                     /\ Becomes("delete", id, "", Deleted(settings, id))
(* PATCH /api/settings/locations with the two labels of the form. *)
SaveLabels(internal, customer) == Becomes("labels", last.id, "", Labelled(settings, internal, customer))
(* POST /api/backup/import, the factory reset, a start: what was stored. *)
Import == Becomes("import", last.id, "", Default)
Restart == Becomes("restart", last.id, "", Sanitize(settings))

Next == \/ \E name \in Names : AddSection(name)
        \/ \E id \in IdsIn(settings) : DeleteSection(id) \/ \E name \in Names \cup {""} : RenameSection(id, name)
        \/ \E internal, customer \in Names \cup {""} : SaveLabels(internal, customer)
        \/ Import \/ Restart

Spec == Init /\ [][Next]_sectionVars

-------------------------------------------------------------------------------
TypeOK == /\ settings.sections # <<>>
          /\ \A i \in 1..Len(settings.sections) : settings.sections[i].name # ""
          /\ \A i, j \in 1..Len(settings.sections) : i # j => settings.sections[i].id # settings.sections[j].id

(* The labels are the names of the first two sections, and there is none   *)
(* for a section that is not there.                                        *)
LabelsAreNames ==
  /\ settings.internal = settings.sections[1].name
  /\ settings.customer = IF Len(settings.sections) > 1 THEN settings.sections[2].name ELSE ""

(* A new section has the name it was given, whatever stood in its place    *)
(* before: a label of a section that is gone names no later one.  What a   *)
(* start reads back is what was there.                                     *)
NewIsNamed ==
  /\ last.op = "add" => settings.sections[Place(settings, last.id)].name = last.name
  /\ last.op = "restart" => settings = last.was
=============================================================================
