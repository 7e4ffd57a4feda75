------------------------------- MODULE Telemetry -------------------------------
(***************************************************************************)
(* What the sites send to the collectors of the server over the network:   *)
(* NetFlow packets, and syslog messages over TCP.  The two share no state. *)
(*                                                                         *)
(* The NetFlow packets of one site (startNetflowCollector and              *)
(* refreshNetflowTopTalkers in lib/monitoring.js, the parsers in           *)
(* lib/telemetry.js).  An exporter describes its records in templates,     *)
(* which it sends now and then over UDP beside the records; the collector  *)
(* keeps the last template of an id for as long as it runs, and reads the  *)
(* records with it.                                                        *)
(*                                                                         *)
(* A packet is a sequence of sets: the template of version v of the layout *)
(* or the record number n, of one source and one destination.  Packets are *)
(* lost and overtaken, and doubled for MaxCopies above 1.  A record counts *)
(* one unit of bytes; read with another layout than the one it was written *)
(* with, it is taken for traffic of some other address, Garbage, or none.  *)
(*                                                                         *)
(* The syslog messages of one TCP connection (startSyslogCollectors in     *)
(* lib/monitoring.js): what arrives is put at the end of tcpBuffer, every  *)
(* line that is complete is handled, and what is left is cut when it is    *)
(* too long.  The stream is cut into chunks wherever the network likes,    *)
(* and ends with a close of the sender, with an error, or with the         *)
(* time-out of an idle socket.                                             *)
(*                                                                         *)
(* A byte is <<i, j>>: the j-th byte of the i-th message, or for j = 0 the *)
(* newline after it.                                                       *)
(***************************************************************************)
EXTENDS Naturals, Sequences, FiniteSets, SequencesExt, FiniteSetsExt, Functions

CONSTANTS
  Addresses,    \* addresses of the network
  Garbage,      \* an address that is none
  Top,          \* 3: rows of topTalkers
  Window,       \* NETFLOW_TOP_WINDOW_MS
  MinWindow,    \* 60 * 1000 ms
  MaxRecords,   \* bound: records the exporter sends
  MaxVersion,   \* bound: layouts of the exporter, 0 is NetFlow v5 without one
  MaxCopies,    \* bound: deliveries of one packet
  MaxTests,     \* bound: tests of the monitor
  MaxStarts,    \* bound: process starts and imports
  MaxTime,      \* bound: the clock
  Count,        \* bound: messages of the stream
  MaxLen,       \* bound: bytes of a message
  MaxSites,     \* bound: changes of the sites
  Limit,        \* 64 * 1024 bytes
  Keep          \* 32 * 1024 bytes

Hosts == Addresses \cup {Garbage}

VARIABLES
  now,
  version,     \* external: the layout the exporter uses
  sent,        \* external: the packets sent: sets, time of sending
  copies,      \* external: how often each has been delivered
  template,    \* netflowTemplates: the layout the collector has, 0 is none
  talkers,     \* netflowTalkers: the series of every host
  topTalkers,  \* of the site's metrics
  lastError,   \* of the site's metrics
  tests, starts, \* the bounds MaxTests and MaxStarts count here
  counted,     \* history: records that were read as they were written
  misread      \* history: records taken for other traffic

flowBounds == <<tests, starts>>
flowVars == <<now, version, sent, copies, template, talkers, topTalkers, lastError, flowBounds, counted, misread>>

Records == 1..MaxRecords
Set == [kind : {"template"}, v : 1..MaxVersion]
       \cup [kind : {"data"}, v : 0..MaxVersion, n : Records, from : Addresses, to : Addresses]
RecordsOf(p) == {s \in Range(p) : s.kind = "data"}

FlowInit ==
  /\ now = 1
  /\ version \in {0, 1}
  /\ sent = <<>> /\ copies = <<>>
  /\ template = 0
  /\ talkers = [h \in Hosts |-> <<>>]
  /\ topTalkers = <<>>
  /\ lastError = FALSE
  /\ tests = 0 /\ starts = 0
  /\ counted = {} /\ misread = {}

-------------------------------------------------------------------------------
(* external: the exporter *)
SentRecords == UNION {RecordsOf(sent[i]) : i \in 1..Len(sent)}
Next1 == Cardinality(SentRecords) + 1
Export(p) == /\ sent' = Append(sent, p) /\ copies' = Append(copies, 0)
             /\ UNCHANGED <<now, version, template, talkers, topTalkers, lastError, flowBounds, counted, misread>>
ExportData(from, to, withTemplate) ==
  /\ Next1 <= MaxRecords /\ (withTemplate => version > 0)
  /\ LET d == [kind |-> "data", v |-> version, n |-> Next1, from |-> from, to |-> to]
     IN Export(IF withTemplate THEN <<[kind |-> "template", v |-> version], d>> ELSE <<d>>)
ExportTemplate == /\ version > 0 /\ ~\E i \in 1..Len(sent) : sent[i] = <<[kind |-> "template", v |-> version]>>
                  /\ Export(<<[kind |-> "template", v |-> version]>>)
NewLayout == /\ version \in 1..(MaxVersion - 1) /\ version' = version + 1
             /\ UNCHANGED <<now, sent, copies, template, talkers, topTalkers, lastError, flowBounds, counted, misread>>

(* parseAnyNetflow: the records of a packet, each with the bytes it is read *)
(* as, and the layout known after it.  A template counts for the sets that  *)
(* follow it in the packet.                                                 *)
KnownAt(p, i) == LET before == {j \in 1..(i - 1) : p[j].kind = "template"}
                 IN IF before = {} THEN template ELSE p[Max(before)].v
FaultyReadableAny(p) == {i \in 1..Len(p) : p[i].kind = "data"}
FaultyReadable(p) == {i \in 1..Len(p) : p[i].kind = "data" /\ (p[i].v = 0 \/ template # 0)}
Readable(p) == {i \in 1..Len(p) : p[i].kind = "data" /\ (p[i].v = 0 \/ KnownAt(p, i) # 0)}
Right(p) == {i \in Readable(p) : p[i].v = 0 \/ KnownAt(p, i) = p[i].v}

(* What of a series is within the window. *)
FaultyRecent(series) == SelectSeq(series, LAMBDA e : e.ts + Window >= now \/ e.down = 0)
FaultyRecentAll(series) == series
Recent(series) == SelectSeq(series, LAMBDA e : e.ts + Window >= now)

SumOf(series) == FoldLeft(LAMBDA sum, e : sum + e.up + e.down, 0, series)

(* The megabits per second of a host, as a quotient: bytes by the time     *)
(* between its first and its last record, of a minute at least.            *)
Span(series) == LET ts == {series[i].ts : i \in 1..Len(series)}
                    seen == Max(ts) - Min(ts)
                IN Max({MinWindow, Min({Window, seen})})
Faster(a, b) == SumOf(a) * Span(b) > SumOf(b) * Span(a)

(* refreshNetflowTopTalkers: hosts of one rate stand in either order. *)
Ranked(t, shown) ==
  LET live == {h \in Hosts : t[h] # <<>>}
  IN /\ Len(shown) = Min({Top, Cardinality(live)})
     /\ IsInjective(shown) /\ Range(shown) \subseteq live
     /\ \A i \in 1..(Len(shown) - 1) : ~Faster(t[shown[i + 1]], t[shown[i]])
     /\ \A h \in live \ Range(shown), i \in 1..Len(shown) : ~Faster(t[h], t[shown[i]])

(* The records of a packet, added to the series of both ends. *)
Entry(up, down) == [ts |-> now, up |-> up, down |-> down]
FaultyAdded(h, right, wrong) ==
  talkers[h] \o [i \in 1..Cardinality({r \in right : r.from = h \/ r.to = h}) |-> Entry(1, 0)]
Added(h, right, wrong) ==
  LET n(set) == 1..Cardinality(set)
      up == {r \in right : r.from = h} \cup (IF h = Garbage THEN wrong ELSE {})
      down == {r \in right : r.to = h} \cup (IF h = Garbage THEN wrong ELSE {})
  IN talkers[h] \o [i \in n(up) |-> Entry(1, 0)] \o [i \in n(down) |-> Entry(0, 1)]

(* socket.on('message') of a site that is known.  Without a record that is *)
(* of use, only the error changes.                                         *)
Read(right, wrong) ==
  IF right \cup wrong = {}
  THEN lastError' = TRUE /\ UNCHANGED <<talkers, topTalkers>>
  ELSE /\ talkers' = [h \in Hosts |-> Recent(Added(h, right, wrong))]
       /\ topTalkers' \in {r \in SeqOf(Hosts, Top) : Ranked(talkers', r)}
       /\ lastError' = FALSE
Deliver(k) ==
  LET p == sent[k]
      right == {p[i] : i \in Right(p)}
  IN /\ copies[k] < MaxCopies /\ copies' = [copies EXCEPT ![k] = @ + 1]
     /\ template' = KnownAt(p, Len(p) + 1)
     /\ counted' = counted \cup {r.n : r \in right}
     /\ \E wrong \in SUBSET {p[i] : i \in Readable(p) \ Right(p)} :
          /\ Read(right, wrong)
          /\ misread' = misread \cup {r.n : r \in wrong}
     /\ UNCHANGED <<now, version, sent, flowBounds>>

(* The timer of main that drops what is out of the window; the rows stay.  *)
Maintenance == /\ talkers' = [h \in Hosts |-> Recent(talkers[h])]
               /\ UNCHANGED <<now, version, sent, copies, template, topTalkers, lastError, flowBounds, counted, misread>>

(* POST .../monitors/netflow/test: 150000 bytes up and 100000 down of an   *)
(* address that is none.                                                   *)
Test == /\ tests < MaxTests /\ tests' = tests + 1
        /\ talkers' = [h \in Hosts |-> Recent(IF h = Garbage THEN Append(talkers[h], Entry(3, 2)) ELSE talkers[h])]
        /\ topTalkers' \in {r \in SeqOf(Hosts, Top) : Ranked(talkers', r)}
        /\ lastError' = FALSE
        /\ UNCHANGED <<now, version, sent, copies, template, starts, counted, misread>>

(* The process starts again, or a backup is imported: the rows come from   *)
(* the database.                                                           *)
Restart == /\ starts < MaxStarts /\ starts' = starts + 1
           /\ template' = 0 /\ talkers' = [h \in Hosts |-> <<>>]
           /\ UNCHANGED <<now, version, sent, copies, topTalkers, lastError, tests, counted, misread>>

Tick == /\ now < MaxTime /\ now' = now + 1
        /\ UNCHANGED <<version, sent, copies, template, talkers, topTalkers, lastError, flowBounds, counted, misread>>

FlowNext == \/ \E from \in Addresses : \E to \in Addresses \ {from}, b \in BOOLEAN : ExportData(from, to, b)
            \/ ExportTemplate \/ NewLayout
            \/ \E k \in 1..Len(sent) : Deliver(k)
            \/ Maintenance \/ Test \/ Restart \/ Tick

-------------------------------------------------------------------------------
Sum(series, f(_)) == FoldLeft(LAMBDA n, e : n + f(e), 0, series)
All(f(_)) == FoldFunctionOnSet(LAMBDA series, n : n + Sum(series, f), 0, talkers, Addresses)

FlowTypeOK ==
  /\ now \in 1..MaxTime /\ version \in 0..MaxVersion /\ template \in 0..version
  /\ \A g, h \in Hosts : \A i \in 1..Len(talkers[g]), j \in 1..Len(talkers[h]) :
       talkers[g][i].ts <= talkers[h][j].ts + Window
  /\ Len(topTalkers) <= Top /\ IsInjective(topTalkers)

(* What one address sent another one received: the bytes up and down are   *)
(* the same over their series, whatever is lost, doubled or dropped as old. *)
Balanced == All(LAMBDA e : e.up) = All(LAMBDA e : e.down)

(* A packet that brings its template along is always counted as it was     *)
(* sent, after any loss, restart or change of layout.                      *)
OwnTemplateCounts ==
  \A k \in 1..Len(sent) :
    copies[k] > 0 /\ (sent[k][1].kind = "template" \/ sent[k][1].v = 0)
    => {r.n : r \in RecordsOf(sent[k])} \subseteq counted \ misread

(* As long as the exporter keeps its layout no record is taken for another. *)
ReadAsSent == version <= 1 => misread = {}

(* "tracks top talkers with rolling bandwidth windows"                      *)
(* (docs/architecture.md:33): who is shown has sent within the window.      *)
TopInWindow ==
  \A i \in 1..Len(topTalkers) :
    \E j \in 1..Len(talkers[topTalkers[i]]) : talkers[topTalkers[i]][j].ts + Window >= now

-------------------------------------------------------------------------------
(* Syslog over TCP. *)
VARIABLES
  lengths,   \* external: the lengths of the messages
  newline,   \* external: a newline ends the last message
  arrived,   \* external: how many bytes of the stream have arrived
  tcpBuffer,
  socket,    \* "open", then how it came to an end
  matched,   \* matchSiteBySourceIp finds a site for the sender
  moves,     \* the bound MaxSites counts here
  rows,      \* the lines handled, in order
  lost       \* the lines of an unknown sender: reported, not handled

streamVars == <<lengths, newline, arrived, tcpBuffer, socket, matched, moves, rows, lost>>

-------------------------------------------------------------------------------
(* external *)
Message(i) == [j \in 1..lengths[i] |-> <<i, j>>]
Stream == FlattenSeq([i \in 1..Count |->
            IF i < Count \/ newline THEN Append(Message(i), <<i, 0>>) ELSE Message(i)])

(* The lines of these bytes, and what follows the last newline. *)
Ends(bytes) == {k \in 1..Len(bytes) : bytes[k][2] = 0}
FaultyRest(bytes) == IF Ends(bytes) = {} THEN bytes ELSE <<>>
FaultyRestAgain(bytes) == SubSeq(bytes, Min(Ends(bytes) \cup {Len(bytes)}) + 1, Len(bytes))
Rest(bytes) == SubSeq(bytes, Max(Ends(bytes) \cup {0}) + 1, Len(bytes))
Lines(bytes) == LET at == <<0>> \o SetToSortSeq(Ends(bytes), <)
                    line == [k \in 1..(Len(at) - 1) |-> SubSeq(bytes, at[k] + 1, at[k + 1] - 1)]
                IN SelectSeq(line, LAMBDA l : l # <<>>)

StreamInit ==
  /\ lengths \in [1..Count -> 0..MaxLen] /\ newline \in BOOLEAN
  /\ arrived = 0
  /\ tcpBuffer = <<>>
  /\ socket = "open"
  /\ matched \in BOOLEAN /\ moves = 0
  /\ rows = <<>>
  /\ lost = <<>>

(* What is left may not grow without bound. *)
FaultyCut(bytes) == IF Len(bytes) > Limit THEN <<>> ELSE bytes
FaultyCutNone(bytes) == bytes
Cut(bytes) == IF Len(bytes) > Limit THEN SubSeq(bytes, Len(bytes) - Keep + 1, Len(bytes)) ELSE bytes

(* socket.on('data') *)
Data(n) ==
  /\ socket = "open" /\ n \in 1..(Len(Stream) - arrived)
  /\ arrived' = arrived + n
  /\ LET all == tcpBuffer \o SubSeq(Stream, arrived + 1, arrived + n)
     IN /\ tcpBuffer' = Cut(Rest(all))
        /\ rows' = IF matched THEN rows \o Lines(all) ELSE rows
        /\ lost' = IF matched THEN lost ELSE lost \o Lines(all)
  /\ UNCHANGED <<lengths, newline, socket, matched, moves>>

(* socket.on('close') *)
Flush(how) ==
  /\ socket = "open" /\ socket' = how
  /\ rows' = IF tcpBuffer # <<>> /\ matched THEN Append(rows, tcpBuffer) ELSE rows
  /\ tcpBuffer' = <<>>
  /\ UNCHANGED <<lengths, newline, arrived, matched, moves, lost>>

(* The sender is done; an error; two minutes without a byte. *)
Ended == arrived = Len(Stream) /\ Flush("ended")
Broken == Flush("broken")

(* A site with the address of the sender is added, changed or deleted. *)
SitesChange == /\ moves < MaxSites /\ moves' = moves + 1
               /\ matched' = ~matched
               /\ UNCHANGED <<lengths, newline, arrived, tcpBuffer, socket, rows, lost>>

StreamNext == (\E n \in 1..(Len(Stream) - arrived) : Data(n)) \/ Ended \/ Broken \/ SitesChange

-------------------------------------------------------------------------------
Of(row) == row[1][1]
Complete(row) == Last(row)[2] = lengths[Of(row)]

StreamTypeOK == /\ arrived \in 0..Len(Stream)
          /\ Len(tcpBuffer) <= Limit
          /\ socket \in {"open", "ended", "broken"}

(* However the stream is cut into chunks, a row is of one message: all of  *)
(* it, its end when it is longer than the limit, or at the end of the      *)
(* connection as much of it as came.                                       *)
RowsAreMessages ==
  \A r \in Range(rows) \cup Range(lost) :
    /\ r = SubSeq(Message(Of(r)), r[1][2], Last(r)[2])
    /\ r[1][2] = 1 \/ (lengths[Of(r)] > Limit /\ Len(r) >= Keep)
    /\ Complete(r) \/ (socket = "broken" /\ r = Last(rows))

(* The rows have the order of the messages, and none twice. *)
RowsInOrder ==
  \A s \in {rows, lost} : \A j, k \in 1..Len(s) : j < k => Of(s[j]) < Of(s[k])

(* A message whose newline has arrived is a row, handled or reported; when *)
(* the sender ends the connection, the last one is too, without a newline. *)
NoneMissing ==
  \A n \in 1..arrived :
    (/\ lengths[Stream[n][1]] > 0
     /\ Stream[n][2] = 0 \/ (socket = "ended" /\ moves = 0 /\ matched))
    => Stream[n][1] \in {Of(r) : r \in Range(rows) \cup Range(lost)}

-------------------------------------------------------------------------------
vars == <<flowVars, streamVars>>

Init == FlowInit /\ StreamInit

Next == \/ FlowNext /\ UNCHANGED streamVars
        \/ StreamNext /\ UNCHANGED flowVars

Spec == Init /\ [][Next]_vars
===============================================================================
