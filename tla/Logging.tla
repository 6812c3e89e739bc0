------------------------------ MODULE Logging ------------------------------
(***************************************************************************)
(* Log: the appenders and the loggers that the configuration names, what   *)
(* they let through, and the calls that change them while the server runs: *)
(* a reload and SetLogLevel.                                               *)
(*                                                                         *)
(* A logger's name is the sequence of its dotted parts.  An entry of the   *)
(* configuration is a record of its tokens; its size is their number.  The *)
(* server never hands an io_service to Log::instance, so a message is      *)
(* written by the thread that logs it.                                     *)
(***************************************************************************)
EXTENDS Integers, SequencesExt, FiniteSetsExt

CONSTANTS Configs, \* the configurations it is started and reloaded with
          Filters, \* the filter types of the messages that are logged
          LogLevels, \* the levels that SetLogLevel is asked for
          None

VARIABLES config,    \* the configuration that was loaded last
          appenders, \* appenders: id -> name, level, flags
          loggers,   \* loggers: name -> name, level, ids of its appenders
          changed,   \* whether SetLogLevel has been used since
          call,      \* the last SetLogLevel and its answer
          output     \* the last message and what each appender has written of it

vars == <<config, appenders, loggers, changed, call, output>>

Disabled == 0
Error == 5
Fatal == 6
Debug == 2
Root == <<"root">>
ServerName == <<"server">>

Nothing == [x \in {} |-> x]
Unnamed == [name |-> <<>>, level |-> Disabled, links |-> {}]

\* Logger::write, Appender::write, ShouldLog
Passes(l, level) == l # Disabled /\ l <= level

------------------------------------------------------------------------------
(* Reading the configuration.  log is a record of the two maps and of the next id. *)

\* Mutant: Close forgets the appenders and keeps the loggers.
Close_KeepsLoggers(log) == [log EXCEPT !.appenders = Nothing]

Close(log) == [log EXCEPT !.appenders = Nothing, !.loggers = Nothing]

\* CreateAppenderFromConfig: a wrong entry is skipped; a type of 3 is the database, for
\* which nothing is made.
IsConsole(a) == a.type = 1
IsFile(a) == a.type = 2 /\ a.size >= 4
AddAppender(log, a) ==
  [log EXCEPT !.appenders = (log.next :> [name |-> a.name, level |-> a.level, flags |-> a.flags]) @@ @,
              !.next = (@ + 1) % 256]
CreateAppenderFromConfig(log, a) ==
  IF a.size >= 2 /\ a.level <= Fatal /\ (IsConsole(a) \/ IsFile(a))
  THEN AddAppender(log, a) ELSE log

\* CreateLoggerFromConfig: loggers[name] makes the entry before the level is looked at.
Named(log, name) == name \in DOMAIN log.loggers /\ log.loggers[name].name # <<>>
Linked(log, names) == {i \in DOMAIN log.appenders : log.appenders[i].name \in names}
CreateLoggerFromConfig(log, l) ==
  IF l.size # 2 \/ Named(log, l.name) THEN log
  ELSE [log EXCEPT !.loggers =
          (l.name :> IF l.level > Fatal THEN Unnamed
                     ELSE [name |-> l.name, level |-> l.level, links |-> Linked(log, l.links)]) @@ @]

\* The default configuration.  "logger" is a reference to the root logger: the second
\* assignment copies the new "server" logger over it, and Create gives it that name.
DefaultLoggers(log) ==
  LET closed == Close(log)
      one == AddAppender(closed, [name |-> "Console", level |-> Debug, flags |-> {}])
  IN  [one EXCEPT !.loggers =
         Root :> [name |-> ServerName, level |-> Error, links |-> {closed.next}]
           @@ ServerName :> Unnamed]

ReadLoggersFromConfig(log, c) ==
  LET read == FoldLeft(CreateLoggerFromConfig, log, c.loggers) IN
  IF Root \in DOMAIN read.loggers THEN read ELSE DefaultLoggers(read)

\* Mutant: the appenders of before are kept.
Loaded_Keeps(as, ls, c) ==
  LET closed == [appenders |-> as, loggers |-> Nothing, next |-> Cardinality(DOMAIN as)] IN
  ReadLoggersFromConfig(FoldLeft(CreateAppenderFromConfig, closed, c.appenders), c)

\* LoadFromConfig, on the maps as they are.
Loaded(as, ls, c) ==
  LET closed == [Close([appenders |-> as, loggers |-> ls, next |-> 0]) EXCEPT !.next = 0] IN
  ReadLoggersFromConfig(FoldLeft(CreateAppenderFromConfig, closed, c.appenders), c)

------------------------------------------------------------------------------
Install(as, ls, c) ==
  LET log == Loaded(as, ls, c) IN
  /\ config' = c
  /\ appenders' = log.appenders
  /\ loggers' = log.loggers

Init ==
  /\ config = None
  /\ appenders = Nothing /\ loggers = Nothing
  /\ changed = FALSE /\ call = None /\ output = None

\* The constructor, and World::LoadConfigSettings when it is told to reload.
LoadFromConfig(c) ==
  /\ Install(appenders, loggers, c)
  /\ changed' = FALSE /\ call' = None /\ output' = None

\* GetLoggerByType: the logger of the filter, or of the longest part before a dot, or root.
LoggerOf(filter) ==
  LET known == {n \in 1 .. Len(filter) : SubSeq(filter, 1, n) \in DOMAIN loggers} IN
  IF known # {} THEN SubSeq(filter, 1, Max(known)) ELSE Root

ShouldLog(filter, level) ==
  Root \in DOMAIN loggers /\ Passes(loggers[LoggerOf(filter)].level, level)

Parts == <<"timestamp", "level", "filter">>

\* Mutant: the prefix of the appender before is left in the message.
Prefix_Grows(before, flags) == before \o SelectSeq(Parts, LAMBDA p : p \in flags)

\* Appender::write begins the prefix anew for each appender, for they share the message.
Prefix(before, flags) == SelectSeq(Parts, LAMBDA p : p \in flags)

\* The appenders of the logger, one after the other, in the order of the hash table.
Write(filter, level) ==
  LET links == loggers[LoggerOf(filter)].links
      open == {i \in links : Passes(appenders[i].level, level)}
  IN  \E order \in SetToSeqs(open) :
        LET prefixes[n \in 0 .. Len(order)] ==
              IF n = 0 THEN <<>> ELSE Prefix(prefixes[n - 1], appenders[order[n]].flags)
        IN  output' = [filter |-> filter, level |-> level,
                       to |-> {<<order[n], prefixes[n]>> : n \in DOMAIN order}]

\* TC_LOG_...: ShouldLog, and then outMessage.
LogMessage(filter, level) ==
  /\ config # None
  /\ ShouldLog(filter, level)
  /\ Write(filter, level)
  /\ call' = None
  /\ UNCHANGED <<config, appenders, loggers, changed>>

\* Mutant: the level of the logger that answers for the name is set.
SetLoggerLevel_Answering(name, level) ==
  IF Root \in DOMAIN loggers
  THEN loggers' = [loggers EXCEPT ![LoggerOf(name)].level = level] /\ call' = <<name, level, TRUE>>
  ELSE call' = <<name, level, FALSE>> /\ UNCHANGED loggers

\* The first logger that has this name is changed; nothing looks at the level.
SetLoggerLevel(name, level) ==
  LET found == {k \in DOMAIN loggers : loggers[k].name = name} IN
  IF found # {}
  THEN \E k \in found : loggers' = [loggers EXCEPT ![k].level = level] /\ call' = <<name, level, TRUE>>
  ELSE call' = <<name, level, FALSE>> /\ UNCHANGED loggers

SetLogLevel(name, level) ==
  /\ config # None
  /\ SetLoggerLevel(name, level)
  /\ changed' = TRUE /\ output' = None
  /\ UNCHANGED <<config, appenders>>

SetAppenderLevel(i, level) ==
  /\ appenders' = [appenders EXCEPT ![i].level = level]
  /\ changed' = TRUE /\ call' = None /\ output' = None
  /\ UNCHANGED <<config, loggers>>

Next ==
  \/ \E c \in Configs : LoadFromConfig(c)
  \/ \E f \in Filters, level \in 1 .. Fatal : LogMessage(f, level)
  \/ \E f \in Filters, level \in LogLevels : SetLogLevel(f, level)
  \/ \E i \in DOMAIN appenders, level \in LogLevels : SetAppenderLevel(i, level)

Spec == Init /\ [][Next]_vars

------------------------------------------------------------------------------
\* Every logger links to appenders that exist, after any reload: an appender that Close
\* has deleted is never written to.
LinksExist == \A k \in DOMAIN loggers : loggers[k].links \subseteq DOMAIN appenders

\* What is in force is what a fresh start with the configuration would give: a reload
\* leaves nothing of the configuration before, and a filter always finds a logger.
ReloadIsClean ==
  config # None /\ ~changed =>
    LET fresh == Loaded(Nothing, Nothing, config) IN
    appenders = fresh.appenders /\ loggers = fresh.loggers /\ Root \in DOMAIN loggers

\* A message is written by appenders of its logger, of which both levels let it through,
\* with the prefix each of them was configured with.
OwnPrefix ==
  output # None =>
    \A w \in output.to :
      /\ w[1] \in loggers[LoggerOf(output.filter)].links
      /\ appenders[w[1]].level \in 1 .. output.level
      /\ loggers[LoggerOf(output.filter)].level \in 1 .. output.level
      /\ Range(w[2]) = appenders[w[1]].flags /\ Len(w[2]) = Cardinality(appenders[w[1]].flags)

\* SetLogLevel answers TRUE when the level of the filter of that name has been set, and
\* only then does anything change (but see the default configuration, where the root
\* logger has the name of the other one).
Defaulted == Root \in DOMAIN loggers /\ loggers[Root].name # Root
SetTakesEffect ==
  call # None /\ ~Defaulted =>
    IF call[3] THEN call[1] \in DOMAIN loggers /\ loggers[call[1]].level = call[2]
    ELSE call[1] \notin DOMAIN loggers \/ loggers[call[1]] = Unnamed
=============================================================================
