----------------------------- MODULE MCMeasures ------------------------------
(***************************************************************************)
(* Checks what is measured at the sites: the WAN tests of a day, the watch *)
(* of the public address, the rates of two interfaces, NetFlow of two      *)
(* exporters, and syslog over TCP.  They share no state, so a behaviour is *)
(* one of one of them: "on" says which, from the start, and the others     *)
(* stand still.                                                            *)
(***************************************************************************)
EXTENDS Integers, FiniteSets

CONSTANTS a, b, garbage, None

VARIABLES
  on,  \* the component that moves
  wanNow, list, wanRows, poll, timer, changes, begun, straddled, armed,
  path, heard, gen, det, known, ipStored, asks, told, notices, reverted,
  octets, booted, boots, sites, ratesHost, enabled, index, site, ratesAt,
  asked, snapshot, rate, ratesLastError, polls, ratesEdits, truth, visited,
  cuts,
  netflowNow, netflowVersion, sent, copies, template, talkers, topTalkers,
  netflowLastError, tests, starts, counted, misread,
  lengths, newline, arrived, tcpBuffer, socket, matched, moves, syslogRows,
  syslogLost

Wan == INSTANCE WanWatch WITH
  Sites <- {"a"}, SlotTicks <- 5, Slots <- 2, Recovery <- 2, Limit <- 2,
  History <- 2, MaxTime <- 19, MaxChanges <- 1, now <- wanNow, rows <- wanRows,
  Collectors <- <<"a">>, Addresses <- {"line1", "line2"}, IpPolls <- {1, 2},
  MaxMoves <- 3, MaxGen <- 2, stored <- ipStored
Rates == INSTANCE InterfaceRates WITH
  Sites <- <<"s">>, Devices <- {"d", "e"}, Modulus <- 2, MaxOctets <- 2,
  MaxBoots <- 1, MaxEdits <- 1, MaxPolls <- 2, host <- ratesHost,
  at <- ratesAt, lastError <- ratesLastError, edits <- ratesEdits
Received == INSTANCE Telemetry WITH
  Addresses <- {a, b}, Garbage <- garbage, Top <- 1, Window <- 1,
  MinWindow <- 1, MaxRecords <- 1, MaxVersion <- 2, MaxCopies <- 1,
  MaxTests <- 1, MaxStarts <- 1, MaxTime <- 3, now <- netflowNow,
  version <- netflowVersion, lastError <- netflowLastError,
  Count <- 2, MaxLen <- 5, MaxSites <- 1, Limit <- 2, Keep <- 1,
  rows <- syslogRows, lost <- syslogLost
wanVars == <<wanNow, list, wanRows, poll, timer, changes, begun, straddled,
             armed>>
ipVars == <<path, heard, gen, det, known, ipStored, asks, told, notices,
            reverted>>
ratesVars == <<octets, booted, boots, sites, ratesHost, enabled, index, site,
               ratesAt, asked, snapshot, rate, ratesLastError, polls,
               ratesEdits, truth, visited, cuts>>
netflowVars == <<netflowNow, netflowVersion, sent, copies, template, talkers,
                 topTalkers, netflowLastError, tests, starts, counted, misread>>
syslogVars == <<lengths, newline, arrived, tcpBuffer, socket, matched, moves,
                syslogRows, syslogLost>>
measuresVars == <<on, wanVars, ipVars, ratesVars, netflowVars, syslogVars>>

MeasuresInit ==
  /\ on \in {"wan", "ip", "rates", "netflow", "syslog"}
  /\ IF on = "wan" THEN Wan!TestInit
     ELSE wanNow = 0 /\ list = 0 /\ wanRows = 0 /\ poll = 0 /\ timer = 0
          /\ changes = 0 /\ begun = 0 /\ straddled = 0 /\ armed = 0
  /\ IF on = "ip" THEN Wan!IpInit
     ELSE path = 0 /\ heard = 0 /\ gen = 0 /\ det = 0 /\ known = 0 /\
          ipStored = 0 /\ asks = 0 /\ told = 0 /\ notices = 0 /\ reverted
          = 0
  /\ IF on = "rates" THEN Rates!Init
     ELSE octets = 0 /\ booted = 0 /\ boots = 0 /\ sites = 0 /\ ratesHost =
          0 /\ enabled = 0 /\ index = 0 /\ site = 0 /\ ratesAt = 0 /\ asked
          = 0 /\ snapshot = 0 /\ rate = 0 /\ ratesLastError = 0 /\ polls = 0
          /\ ratesEdits = 0 /\ truth = 0 /\ visited = 0 /\ cuts = 0
  /\ IF on = "netflow" THEN Received!FlowInit
     ELSE netflowNow = 0 /\ netflowVersion = 0 /\ sent = 0 /\ copies = 0 /\
          template = 0 /\ talkers = 0 /\ topTalkers = 0 /\ netflowLastError
          = 0 /\ tests = 0 /\ starts = 0 /\ counted = 0 /\ misread = 0
  /\ IF on = "syslog" THEN Received!StreamInit
     ELSE lengths = 0 /\ newline = 0 /\ arrived = 0 /\ tcpBuffer = 0 /\
          socket = 0 /\ matched = 0 /\ moves = 0 /\ syslogRows = 0 /\
          syslogLost = 0

WanMoves == /\ on = "wan" /\ Wan!TestNext
            /\ UNCHANGED <<on, ipVars, ratesVars, netflowVars, syslogVars>>
IpMoves == /\ on = "ip" /\ Wan!IpNext
           /\ UNCHANGED <<on, wanVars, ratesVars, netflowVars, syslogVars>>
RatesMoves == /\ on = "rates" /\ Rates!Next
              /\ UNCHANGED <<on, wanVars, ipVars, netflowVars, syslogVars>>
NetflowMoves == /\ on = "netflow" /\ Received!FlowNext
                /\ UNCHANGED <<on, wanVars, ipVars, ratesVars, syslogVars>>
SyslogMoves == /\ on = "syslog" /\ Received!StreamNext
               /\ UNCHANGED <<on, wanVars, ipVars, ratesVars, netflowVars>>

MeasuresNext == WanMoves \/ IpMoves \/ RatesMoves \/ NetflowMoves \/ SyslogMoves

MeasuresSpec == MeasuresInit /\ [][MeasuresNext]_measuresVars

-------------------------------------------------------------------------------
(* There is one row for a slot of a day, of that day, and a test that failed*)
(* is tried again soon.  A change of the public address is reported once,  *)
(* and what was told is what is known.                                     *)
WanReported ==
  /\ on = "wan" => /\ Wan!TestTypeOK /\ Wan!OneRowPerSlot
                   /\ Wan!RowsOfTheDay /\ Wan!RetriedSoon
  /\ on = "ip" => Wan!IpTypeOK /\ Wan!ReportedOnce /\ Wan!ToldIsKnown

(* A rate that is shown is the traffic of its device between two polls,    *)
(* whatever the counter, the device, the settings and restarts did.  NetFlow*)
(* records are counted once and by the template they were sent with.  The  *)
(* rows of syslog are the messages, in order, none missing.                *)
TrafficCounted ==
  /\ on = "rates" => Rates!TypeOK /\ Rates!RateIsTraffic
  /\ on = "netflow" => /\ Received!FlowTypeOK /\ Received!Balanced
                       /\ Received!OwnTemplateCounts /\ Received!ReadAsSent
  /\ on = "syslog" => /\ Received!StreamTypeOK /\ Received!RowsAreMessages
                      /\ Received!RowsInOrder /\ Received!NoneMissing
===============================================================================
