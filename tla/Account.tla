------------------------------- MODULE Account -------------------------------
(***************************************************************************)
(* What a player wins: the PlayerInfo of one Player object, that the       *)
(* client fills in when it logs in and AiPlayerPool when it takes an AI,   *)
(* and that UpdatePlayerData changes when a round is over.                 *)
(*                                                                         *)
(* The gold is what the client says it has won.  A round ends for a user   *)
(* by its own CMSG_ROUND_OVER, and for an AI because a neighbour's has     *)
(* ended; either takes effect in the next Player::Update.  Numbers are     *)
(* uint32, of the width Word; _winGold is an int32.                        *)
(***************************************************************************)
EXTENDS Integers, Sequences, FiniteSets

CONSTANTS Word,       \* 2^32
          LevelTable, \* the scores of UpdatePlayerLevel, rising
          BasicScore, \* CONFIG_BASICSCORE
          RoomGold,   \* [RoomIds -> CONFIG_ROOM1_GOLD ..]
          Logins,     \* the PlayerInfo clients log in with, each with its props
          Reports,    \* what clients report of a round, in -(Word \div 2) .. (Word \div 2) - 1
          MaxRounds   \* a bound on the rounds of a player

RoomIds == DOMAIN RoomGold
Words == 0 .. Word - 1

\* PlayerInfo, without its names; props are the indexes of props_count that are tested.
PlayerInfo == [gold : Words, all : Words, win : Words, rate : Words, score : Words,
               level : Words, props : SUBSET {0, 1, 13, 14, 15}]

AccountAssumption ==
  /\ Word \in Nat \ {0} /\ BasicScore \in Nat /\ MaxRounds \in Nat
  /\ LevelTable \in Seq(Nat) /\ LevelTable # <<>>
  /\ \A i, j \in DOMAIN LevelTable : i < j => LevelTable[i] < LevelTable[j]
  /\ RoomIds \subseteq Nat /\ \A r \in RoomIds : RoomGold[r] \in Words
  /\ Logins \subseteq PlayerInfo /\ Reports \subseteq Int

VARIABLES info,    \* _playerInfo, while somebody plays
          ai,      \* PLAYER_TYPE_AI
          room,    \* _roomid, or -1 before the login
          winGold, \* _winGold
          over,    \* _gameStatus = GAME_STATUS_ROUNDOVERING
          first,   \* the PlayerInfo it began with
          report,  \* the last report of the round, 0 for an AI
          counted  \* the last reports of the rounds that have been counted

accountVars == <<info, ai, room, winGold, over, first, report, counted>>

NoInfo == [gold |-> 0, all |-> 0, win |-> 0, rate |-> 0, score |-> 0, level |-> 0, props |-> {}]

AccountInit ==
  /\ info = NoInfo /\ first = NoInfo /\ ai = FALSE /\ room = -1
  /\ winGold = 0 /\ over = FALSE /\ report = 0 /\ counted = <<>>

Begins(i, r, isAi) ==
  /\ info' = i /\ first' = i /\ room' = r /\ ai' = isAi
  /\ winGold' = 0 /\ over' = FALSE /\ report' = 0 /\ counted' = <<>>

\* HandlePlayerLogin: the PlayerInfo is the client's, whatever it says.
HandlePlayerLogin == room = -1 /\ \E i \in Logins, r \in RoomIds : Begins(i, r, FALSE)

\* configureAiPlayer: a win rate of 0.4, which is 0 in an integer.
ConfigureAi(r) == LET all == (100 * r + 80) % Word
                  IN  [gold |-> RoomGold[r], all |-> all, win |-> (all * 2) \div 5, rate |-> 0,
                       score |-> 0, level |-> 2 * r + 1, props |-> {}]
GetAiAccount == room = -1 /\ \E r \in RoomIds : Begins(ConfigureAi(r), r, TRUE)

\* Mutant: what is reported is added to what has been reported in this window.
HandleRoundOver_Added(g) == winGold' = winGold + g /\ over' = TRUE

\* HandleRoundOver: of two reports between two updates the last one counts.
HandleRoundOver(g) == winGold' = g /\ over' = TRUE

\* checkRoundOver of a neighbour: an AI reports nothing.
EndedByNeighbour == over' = TRUE /\ UNCHANGED winGold

\* calcDoubleScore: props are the indexes of props_count that pass its tests.
Doubled(props) == (IF props \intersect {0, 1} # {} THEN 2 ELSE 1) *
                  (IF props \intersect {13, 14, 15} # {} THEN 2 ELSE 1)

\* Mutant: a player with exactly the score of a level does not have it.
LevelsOf_Above(score) == {Cardinality({i \in DOMAIN LevelTable : LevelTable[i] < score})}

\* UpdatePlayerLevel: past the end of the table it compares with whatever is there, and
\* stops somewhere.
LevelsOf(score) ==
  IF score >= LevelTable[Len(LevelTable)] THEN {Len(LevelTable), Len(LevelTable) + 1}
  ELSE {CHOOSE l \in 0 .. Len(LevelTable) - 1 :
          score < LevelTable[l + 1] /\ \A i \in 1 .. l : LevelTable[i] <= score}

\* Mutant: a round that is lost counts as one that is won.
Won_Played(gold) == 1

Won(gold) == IF gold > 0 THEN 1 ELSE 0

\* Mutant: the score does not depend on the room.
Gain_AnyRoom == BasicScore * Doubled(info.props)

Gain == (room + 1) * BasicScore * Doubled(info.props)

\* UpdatePlayerData.  The gold is unsigned: it is never below 0, and a loss of more than
\* there is wraps.
UpdatePlayerData(level) ==
  LET all == (info.all + 1) % Word
      win == (info.win + Won(winGold)) % Word
      score == IF winGold > 0 THEN (info.score + Gain) % Word ELSE info.score
  IN  /\ level \in LevelsOf(score)
      /\ info' = [info EXCEPT !.gold = (info.gold + winGold) % Word, !.all = all, !.win = win,
                              !.rate = ((100 * win) % Word) \div all, !.score = score,
                              !.level = level]

\* checkRoundOver and what resetGame does to _winGold.
CheckRoundOver ==
  /\ over
  /\ \E level \in 0 .. Len(LevelTable) + 1 : UpdatePlayerData(level)
  /\ counted' = Append(counted, report)
  /\ winGold' = 0 /\ over' = FALSE /\ report' = 0
  /\ UNCHANGED <<ai, room, first>>

\* A player of either kind ends a round, and may go on to another one.
RoundOver == /\ room # -1 /\ Len(counted) < MaxRounds
             /\ \/ ~ai /\ \E g \in Reports : HandleRoundOver(g) /\ report' = g
                \/ ai /\ ~over /\ EndedByNeighbour /\ UNCHANGED report
             /\ UNCHANGED <<info, ai, room, first, counted>>

\* ~Player, or releasePlayer.
Leave == room # -1 /\ ~over /\ room' = -1 /\ ai' = FALSE /\ info' = NoInfo /\ first' = NoInfo
         /\ winGold' = 0 /\ over' = FALSE /\ report' = 0 /\ counted' = <<>>

AccountNext == HandlePlayerLogin \/ GetAiAccount \/ RoundOver \/ CheckRoundOver \/ Leave

AccountSpec == AccountInit /\ [][AccountNext]_accountVars
-----------------------------------------------------------------------------
AccountTypeOK ==
  /\ info \in PlayerInfo
  /\ room \in RoomIds \union {-1} /\ ai \in BOOLEAN /\ over \in BOOLEAN
  /\ winGold \in -(Word \div 2) .. (Word \div 2) - 1

SumOf(s) == LET sum[n \in 0 .. Len(s)] == IF n = 0 THEN 0 ELSE sum[n - 1] + s[n] IN sum[Len(s)]

Wins == Cardinality({n \in DOMAIN counted : counted[n] > 0})

\* Player.cpp:472: after a round the level is the number of thresholds the score has
\* reached, as long as there is a threshold above it.
LevelIsRank ==
  counted # <<>> /\ info.score < LevelTable[Len(LevelTable)] =>
    info.level = Cardinality({i \in DOMAIN LevelTable : LevelTable[i] <= info.score})

\* Player.cpp:448: a report is counted once, in the round it was the last one for, and the
\* gold is the sum of what was counted, in 32 bits.
GoldIsSum == info.gold = (first.gold + SumOf(counted)) % Word

\* Player.cpp:460: the score is that of the rounds won, each worth the same to a player:
\* the basic score times the number of the room, doubled by a card and by VIP.
ScoreIsEarned ==
  LET worth == (room + 1) * BasicScore * (IF {0, 1} \intersect first.props = {} THEN 1 ELSE 2)
               * (IF {13, 14, 15} \intersect first.props = {} THEN 1 ELSE 2)
  IN  room # -1 => info.score = (first.score + Wins * worth) % Word

\* Player.cpp:412: an AI that is told by a neighbour has played and won nothing: its gold,
\* its score and its games won are those it was configured with.
AisOnlyPlay == ai => /\ <<info.gold, info.win, info.score>> = <<first.gold, first.win, first.score>>
                     /\ info.all = (first.all + Len(counted)) % Word

\* What a player has is what its rounds have given it (Player.cpp:446-478): the gold, the
\* score and the level are those of the rounds counted, and an AI has won nothing.
AccountAddsUp == GoldIsSum /\ ScoreIsEarned /\ LevelIsRank /\ AisOnlyPlay
=============================================================================
