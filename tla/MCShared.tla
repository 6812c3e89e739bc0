------------------------------ MODULE MCShared ------------------------------
(***************************************************************************)
(* The parts under shared/, and those of the process: events, packets,     *)
(* text, timers, the loop of the main thread and the logs, for TLC.  None  *)
(* uses another, so a behaviour is one of one part, and the other parts    *)
(* stay in their first state.                                              *)
(***************************************************************************)
EXTENDS Integers, Sequences

CONSTANTS t1, t2, a, b, c, None

VARIABLES part,
          time, phase, events, last,
          now, queue, aborting, toAbort, running, updating, owner, aborted, executed,
          opcode, out, sent, header, in, due, got, fault,
          tick, intervals, expiry, small, expire, tracked, fired, longest, elapsed,
          clock, pc, prev, curr, diff, prevSleep, current, begun, planned, work, toWorld, toRooms,
          config, appenders, loggers, changed, call, output,
          files, buffer, fileSize, writer, line, exceeds, written, count, second, crashes, started,
          enabled, up, ready, thread, packet, passed, lock, held, disk,
          text, secs, letter, octets, wide

mapVars == <<time, phase, events, last>>
eventVars == <<now, queue, aborting, toAbort, running, updating, owner, aborted, executed>>
packetVars == <<opcode, out, sent, header, in, due, got, fault>>
timerVars == <<tick, intervals, expiry, small, expire, tracked, fired, longest, elapsed>>
loopVars == <<clock, pc, prev, curr, diff, prevSleep, current, begun, planned, work, toWorld, toRooms>>
loggerVars == <<config, appenders, loggers, changed, call, output>>
fileVars == <<files, buffer, fileSize, writer, line, exceeds, written, count, second, crashes, started>>
recordVars == <<enabled, up, ready, thread, packet, passed, lock, held, disk>>
textVars == <<text, secs, letter>>
wideVars == <<octets, wide>>
-----------------------------------------------------------------------------
(* EventMap and EventProcessor                                             *)

\* Two events at a time; 9 is a group that is out of range.
Map == INSTANCE EventMap WITH Ids <- {1, 2}, Times <- {1}, GroupArgs <- {1, 9},
         PhaseArgs <- {0, 1, 2}, MaxEvents <- 2, MaxTime <- 2, Width <- 8

\* Three events, of which c may not be deleted while it waits.
Processor == INSTANCE EventProcessor WITH Events <- {a, b, c}, Deletable <- {a, b},
               Offsets <- {1, 2}, MaxTime <- 2, time <- now
-----------------------------------------------------------------------------
(* Packets: a value of every kind, with the extremes that the encodings    *)
(* tell apart.                                                             *)

Num(size, signed, n) == [type |-> "int", size |-> size, signed |-> signed, val |-> n]
Float(bytes) == [type |-> "float", val |-> bytes]
Str(s) == [type |-> "string", val |-> s]
Guid(s) == [type |-> "guid", val |-> s]
Lst(size, s) == [type |-> "list", size |-> size, val |-> s]
\* 2000-02-29 12:30:59, 2031-12-31 23:59:00 and a minute later, in UTC+8.
Time(t) == [type |-> "time", val |-> t]

PacketValues ==
  {Num(1, FALSE, 255), Num(2, TRUE, -2), Num(4, FALSE, 65536), Num(8, TRUE, -1),
   Float(<<0, 0, 128, 63>>), Float(<<0, 0, 128, 255>>),
   Str(<<>>), Str(<<97, 98>>),
   Guid([i \in 1 .. 8 |-> 0]), Guid(<<0, 7, 0, 0, 9, 0, 0, 255>>),
   Time(951798659), Time(1956499140), Time(1956499200),
   Lst(1, <<>>), Lst(2, <<1, 65535>>)}

Pkt == INSTANCE Packet WITH Values <- PacketValues, MaxValues <- 2, Opcode <- 65541,
         Timezone <- -28800
-----------------------------------------------------------------------------
(* Timers, and a loop of 5 ms whose updates take up to 8, with rooms that  *)
(* wait for 10.                                                            *)

Tmr == INSTANCE Timers WITH IntervalTime <- 4, Period <- 5, Start <- 7, Steps <- {0, 1, 3, 5, 9},
         Half <- 32, MaxTime <- 40

\* On a clock that only goes on, and does not wrap.
Loop == INSTANCE WorldLoop WITH MaxGiven <- 200, SleepConst <- 5, Interval <- 10,
          Ticks <- {0, 2, 5, 8}, Lates <- {0, 1, 3}, Width <- 100, Backs <- {}, MaxClock <- 50

\* On one that wraps and is set back.
Clock == INSTANCE WorldLoop WITH MaxGiven <- 25, SleepConst <- 5, Interval <- 10,
           Ticks <- {2, 8}, Lates <- {1}, Width <- 12, Backs <- {3}, MaxClock <- 14
-----------------------------------------------------------------------------
(* Loggers: the configuration that is shipped; one with a logger for a     *)
(* part of the network, an appender that is wrong and one for the          *)
(* database; one without a root logger; and one whose root logger has a    *)
(* wrong level.                                                            *)

Root == <<"root">>
App(n, size, type, level, flags) ==
  [name |-> n, size |-> size, type |-> type, level |-> level, flags |-> flags]
Lgr(n, size, level, links) == [name |-> n, size |-> size, level |-> level, links |-> links]
Cfg(as, ls) == [appenders |-> as, loggers |-> ls]

Console == App("Console", 3, 1, 3, {})
Server == App("Server", 5, 2, 2, {})

Shipped == Cfg(<<Console, Server>>,
               <<Lgr(Root, 2, 5, {"Console", "Server"}), Lgr(<<"server">>, 2, 3, {"Console", "Server"})>>)
Network == Cfg(<<App("Short", 1, 1, 1, {}), App("NoFile", 3, 2, 1, {}), App("DB", 4, 3, 1, {}),
                 App("Server", 6, 2, 2, {"timestamp", "filter"}),
                 App("Level", 3, 1, 7, {}), App("Console", 3, 1, 1, {"level", "filter"})>>,
               <<Lgr(<<"network">>, 2, 4, {"Server", "Console"}), Lgr(Root, 2, 2, {"Console", "DB"}),
                 Lgr(<<"network", "opcode">>, 1, 2, {})>>)
NoRoot == Cfg(<<Console, Server>>, <<Lgr(<<"server">>, 2, 3, {"Console"})>>)
BadRoot == Cfg(<<Console, Server>>,
               <<Lgr(Root, 2, 7, {"Console"}), Lgr(<<"server">>, 2, 3, {"Server"})>>)

LogConfigs == {Shipped, Network, NoRoot, BadRoot}
LogFilters == {Root, <<"server">>, <<"network">>, <<"network", "opcode">>}

Loggers == INSTANCE Logging WITH Configs <- LogConfigs, Filters <- LogFilters, LogLevels <- {0, 2, 4, 7}
-----------------------------------------------------------------------------
(* Files of appenders: two writers of two or three lines.                  *)

\* One message at a time, to a file that holds two lines and has backups.
Limited == INSTANCE LogFile WITH Writers <- {"v", "w"}, Params <- {"p"}, Dynamic <- FALSE,
             Mode <- "w", Backup <- TRUE, MaxFileSize <- 2, Strand <- TRUE, Seconds <- TRUE,
             MaxLines <- 3, MaxCrashes <- 1, MaxTime <- 3,
             disk <- files, pc <- writer, clock <- second, up <- started

\* Two at once, as in the server, to a file without a limit.
AtOnce == INSTANCE LogFile WITH Writers <- {"v", "w"}, Params <- {"p"}, Dynamic <- FALSE,
            Mode <- "a", Backup <- FALSE, MaxFileSize <- 0, Strand <- FALSE, Seconds <- TRUE,
            MaxLines <- 2, MaxCrashes <- 1, MaxTime <- 0,
            disk <- files, pc <- writer, clock <- second, up <- started

\* Two at once, to a file for each of two parameters.
PerParam == INSTANCE LogFile WITH Writers <- {"v", "w"}, Params <- {"p", "q"}, Dynamic <- TRUE,
              Mode <- "w", Backup <- FALSE, MaxFileSize <- 0, Strand <- FALSE, Seconds <- TRUE,
              MaxLines <- 2, MaxCrashes <- 1, MaxTime <- 0,
              disk <- files, pc <- writer, clock <- second, up <- started

\* Two connections whose packets are empty or have three bytes.
Records == INSTANCE PacketLog WITH Threads <- {t1, t2}, Sizes <- {0, 3}, OpcodeSize <- 4,
             MaxPackets <- 2, Null <- None, pc <- thread
-----------------------------------------------------------------------------
(* Text: every two kinds of character, periods at both sides of a minute,  *)
(* an hour and a day, and every letter that has a case; the octets at the  *)
(* limits of UTF-8, and the units at those of UTF-16, one of them of more  *)
(* than 16 bits.                                                           *)

Periods == UNION {{x * 86400 + y * 3600 + z * 60 + s : s \in {0, 1, 59}} :
                    x \in {0, 1, 12}, y \in {0, 1, 23}, z \in {0, 1, 59}}

Txt == INSTANCE Text WITH Chars <- {" ", "bell", ",", "1", "g", "s", "d"}, MaxText <- 4,
         Times <- Periods, Letters <- (0 .. 1110) \union (7830 .. 7840), Word <- 16777216

Wide == INSTANCE Utf8 WITH
          Octets <- {65, 128, 143, 144, 159, 160, 191, 193, 194, 224, 237, 239, 240, 244, 245},
          Units <- {65, 127, 128, 2047, 2048, 55295, 55296, 56319, 56320, 57343, 57344, 65535, 65601},
          MaxOctets <- 4, MaxUnits <- 3, text <- octets
-----------------------------------------------------------------------------
ASSUME SharedAssumption ==
  /\ Map!EventMapAssumption /\ Processor!EventProcessorAssumption /\ Tmr!TimersAssumption
  /\ Loop!WorldLoopAssumption /\ Clock!WorldLoopAssumption
  /\ Limited!LogFileAssumption /\ AtOnce!LogFileAssumption /\ PerParam!LogFileAssumption
  /\ Records!PacketLogAssumption /\ Pkt!ByteBufferAssumption /\ Txt!TextAssumption /\ Wide!Utf8Assumption

FileParts == {"limited", "at once", "per param"}
Parts == {"map", "processor", "packet", "timers", "loop", "clock", "loggers", "records", "text", "wide"}
           \union FileParts

SharedInit ==
  /\ part \in Parts
  /\ Map!Init /\ Processor!Init /\ Pkt!Init /\ Tmr!TimersInit /\ Loop!Init /\ Loggers!Init /\ Wide!Init
  /\ IF part = "at once" THEN AtOnce!Init ELSE IF part = "per param" THEN PerParam!Init ELSE Limited!Init
  /\ Records!Init /\ (part # "records" => ~enabled)
  /\ Txt!Init /\ (part # "text" => secs = 0 /\ letter = 0)

\* UtilityStep and ProcessStep, each with the parts of its half of the variables.
utilityVars == <<mapVars, eventVars, packetVars, timerVars, textVars, wideVars>>
processVars == <<loopVars, loggerVars, fileVars, recordVars>>
sharedVars == <<part, utilityVars, processVars>>

UtilityStep ==
  \/ part = "map" /\ Map!Next /\ UNCHANGED <<eventVars, packetVars, timerVars, textVars, wideVars>>
  \/ part = "processor" /\ Processor!Next /\ UNCHANGED <<mapVars, packetVars, timerVars, textVars, wideVars>>
  \/ part = "packet" /\ Pkt!Next /\ UNCHANGED <<mapVars, eventVars, timerVars, textVars, wideVars>>
  \/ part = "timers" /\ Tmr!TimersNext /\ UNCHANGED <<mapVars, eventVars, packetVars, textVars, wideVars>>
  \/ part = "text" /\ Txt!Next /\ UNCHANGED <<mapVars, eventVars, packetVars, timerVars, wideVars>>
  \/ part = "wide" /\ Wide!Next /\ UNCHANGED <<mapVars, eventVars, packetVars, timerVars, textVars>>

ProcessStep ==
  \/ part = "loop" /\ Loop!Next /\ UNCHANGED <<loggerVars, fileVars, recordVars>>
  \/ part = "clock" /\ Clock!Next /\ UNCHANGED <<loggerVars, fileVars, recordVars>>
  \/ part = "loggers" /\ Loggers!Next /\ UNCHANGED <<loopVars, fileVars, recordVars>>
  \/ part = "limited" /\ Limited!Next /\ UNCHANGED <<loopVars, loggerVars, recordVars>>
  \/ part = "at once" /\ AtOnce!Next /\ UNCHANGED <<loopVars, loggerVars, recordVars>>
  \/ part = "per param" /\ PerParam!Next /\ UNCHANGED <<loopVars, loggerVars, recordVars>>
  \/ part = "records" /\ Records!Next /\ UNCHANGED <<loopVars, loggerVars, fileVars>>

SharedNext == /\ UNCHANGED part
              /\ \/ UtilityStep /\ UNCHANGED processVars
                 \/ ProcessStep /\ UNCHANGED utilityVars

\* Update of the EventProcessor is fair, as in its FairSpec: its caller waits for it.
SharedSpec == /\ SharedInit /\ [][SharedNext]_sharedVars
              /\ WF_eventVars(part = "processor" /\ Processor!Update)
-----------------------------------------------------------------------------
\* The types of all parts.
TypesOK == /\ part \in Parts
           /\ Map!TypeOK /\ Processor!TypeOK /\ Pkt!TypeOK /\ Tmr!TimersTypeOK /\ Records!TypeOK
           /\ IF part = "clock" THEN Clock!TypeOK ELSE Loop!TypeOK

\* Util.h:665-801: through Update, Repeat and both DelayEvents an event of an EventMap
\* waits as long as its user asked, unless a delay was greater than the timer; ExecuteEvent takes the due event of an active phase
\* that comes first, and the queries answer for the one that does.
EventsAreInTime == [](Map!WaitIsReal /\ Map!QueriesAreExact) /\ Map!ExecutesTheNext

\* EventProcessor.cpp:35-98: an event has one owner, through aborts and kills in the
\* middle of Update, and is deleted only after its Execute or its Abort; an event that is
\* to be aborted is not executed, and of those that are due the earliest is first.  Update
\* returns, though what it executes adds events and kills others.
EventsAreOwned == /\ [](Processor!OwnedOnce /\ Processor!DeletedAfterCall)
                  /\ Processor!AbortedDontExecute /\ Processor!ExecutesTheEarliest
                  /\ part = "processor" => Processor!UpdateReturns

\* ByteBuffer.h:126-286: what is read is what was written, but for a packed time, which is
\* moved by the timezone (ByteBuffer.h:402).  ByteBuffer.h:348: a packet that
\* arrived whole is read to its end, and one that was cut throws, unless it ends with a
\* string.  WorldSocket.cpp:105: the size in the header is that of header and payload.
PacketsArrive == Pkt!RoundTrip /\ Pkt!WholeIsRead /\ Pkt!CutIsNoticed /\ Pkt!HeaderIsPlain

\* Timer.h:33: the world is given all the time that passes, on a clock that does not wrap.
\* RoomManager.cpp:49: whatever time the world is given, the rooms get it.  Main.cpp:91: a
\* sleep fills its tick.  Timer.h:71-195: an IntervalTimer loses no time; TimeTracker,
\* TimeTrackerSmall and the tracker interface of PeriodicTimer agree; a PeriodicTimer
\* neither fires early nor falls behind.
TimeAddsUp ==
  /\ [](Loop!RoomsGetAll /\ (part = "loop" => Loop!TimeAddsUp))
  /\ [][part = "loop" => Loop!SleepBalances]_sharedVars
  /\ [](Tmr!IntervalsAddUp /\ Tmr!TrackersAgree /\ Tmr!NeverEarly /\ Tmr!KeepsPace)

\* Util.cpp:82-212, Util.h:273-322: the tokens of a text put together are the text;
\* stripping leaves no two blanks in a row and everything else; an amount of money with
\* one wrong token is worth nothing; a period that is written is read back; upper and
\* lower case are inverse.  core.h:220, checked.h:206-246, Util.cpp:302-370: exactly the
\* well-formed texts are accepted, texts and wide strings come back from each other, and
\* what is left of a text that is truncated is a prefix of it, where no code point above
\* 0xffff makes utf8truncate write past its wide string.
TextIsKept ==
  /\ Txt!TokensRejoin /\ Txt!StrippedIsClean /\ Txt!MoneyIsAllOrNothing
  /\ Txt!PeriodsAreReadBack /\ Txt!CaseComesBack
  /\ Wide!AcceptsUnicode /\ Wide!TextRoundTrips /\ Wide!WideRoundTrips /\ Wide!TruncatesToPrefix

\* Log.cpp:308, 382-405: loggers link to appenders that exist, a reload leaves nothing of
\* the configuration before, and SetLogLevel does what it answers.  Appender.cpp:76: an
\* appender writes its own prefix, whatever others were given.
\* AppenderFile.cpp:48-95: a line that has been written is in a file, through crashes and
\* backups; the lines of a writer are in each file in order, and none is in two places
\* (two writers have two FILEs for one file when its name has a parameter); with one
\* message at a time a file does not grow past its limit.  PacketLog.cpp:126-130: the
\* packet log can be read record by record, also after a crash, and tells which packets
\* were handled.
LogsAreWhole ==
  /\ Loggers!LinksExist /\ Loggers!ReloadIsClean /\ Loggers!SetTakesEffect /\ Loggers!OwnPrefix
  /\ part \in FileParts => Limited!NothingLost
  /\ part \in FileParts \ {"per param"} => Limited!InOrder
  /\ part = "limited" => Limited!SizeIsLimited
  /\ Records!FileParses /\ Records!LogIsComplete
=============================================================================
