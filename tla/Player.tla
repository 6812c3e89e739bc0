------------------------------- MODULE Player -------------------------------
(***************************************************************************)
(* What the methods of class Player do to the players of a table.          *)
(*                                                                         *)
(* A player points at its two neighbours and at its session, and most of   *)
(* its methods read and write the neighbours too, so an operator of this   *)
(* module takes a memory m and returns the memory after the call:          *)
(*    m.pl[p]  the Player object p,                                        *)
(*    m.ses[c] the _player of the WorldSession of client c,                *)
(*    m.fault  TRUE once a null or freed Player, or the null session of a  *)
(*             user, has been dereferenced: the program's behaviour is     *)
(*             undefined from there on.                                    *)
(*                                                                         *)
(* Cards, gold and the wording of packets are left out: no status, queue   *)
(* or link depends on them.  The one thing kept of the packets is that     *)
(* sending one dereferences the session, and which desk the last           *)
(* SMSG_DESK_THREE described.                                              *)
(***************************************************************************)
EXTENDS Integers, FiniteSetsExt

CONSTANTS Users,      \* the Player objects HandlePlayerLogin allocates
          Ais,        \* the Player objects of AiPlayerPool
          Clients,    \* the connected programs; each has one session
          AiIds,      \* the ids configureAiPlayer draws from (2000 .. 2099)
          Null,       \* nullptr
          WaitTime,   \* CONFIG_WAIT_TIME, in units of time
          AiDelay     \* CONFIG_AI_DELAY, in units of time

Players == Users \union Ais
Ids == Clients \union AiIds

ASSUME PlayerAssumption == /\ Users \intersect Ais = {}
                           /\ Clients \intersect AiIds = {}
                           /\ Null \notin Players \union Clients \union AiIds
ASSUME PlayerTimeAssumption == WaitTime \in Nat /\ AiDelay \in Nat

\* GameStatus: the two logout values are flags over the low four bits.
WAIT_START    == 0
STARTING      == 1
STARTED       == 2
DEALING       == 3
DEALED        == 4
GRABING       == 5
GRABED        == 6
WAIT_OUT_CARD == 7
OUT_CARDING   == 8
OUT_CARDED    == 9
ROUNDOVERING  == 10
ROUNDOVERED   == 11
LOG_OUTING    == 16
LOG_OUTED     == 32

Status == 0 .. 11 \union {LOG_OUTING + s : s \in 0 .. 11} \union {LOG_OUTED}

\* AtQueueFlags.
NULL  == 0
ONE   == 1
TWO   == 2
THREE == 3

\* PlayerType: PLAYER_TYPE_USER, PLAYER_TYPE_REPLACE_AI, PLAYER_TYPE_AI.
Kinds == {"user", "replace", "ai"}

NoDesk == <<Null, Null>>

PlayerRecord ==
  [alive   : BOOLEAN,                     \* the object is allocated
   id      : Ids \union {Null},           \* _playerInfo.id
   st      : Status,                      \* _gameStatus
   kind    : Kinds,                       \* _playerType
   q       : NULL .. THREE,               \* _queueFlags
   left    : Players \union {Null},       \* _left
   right   : Players \union {Null},       \* _right
   sess    : Clients \union {Null},       \* _session
   started : BOOLEAN,                     \* _playerInfo.start == 1
   exp     : -1 .. WaitTime,              \* _expiration; -1 stands for every negative value
   delay   : 0 .. AiDelay,                \* _aiDelay; 0 stands for every value that is not positive
   deflt   : Ids \union {Null},           \* _defaultGrabLandlordPlayerId; Null is 0
   bid     : -1 .. 3,                     \* _grabLandlordScore
   lord    : Ids \union {Null},           \* _landlordPlayerId; Null is -1
   desk    : (Players \union {Null}) \X (Players \union {Null})]
                                          \* history: the neighbours in the last three-desk packet

\* Player::Player
NewPlayer(session) ==
  [alive |-> TRUE, id |-> Null, st |-> WAIT_START, kind |-> "user", q |-> NULL,
   left |-> Null, right |-> Null, sess |-> session, started |-> FALSE,
   exp |-> WaitTime, delay |-> AiDelay, deflt |-> Null, bid |-> -1, lord |-> Null,
   desk |-> NoDesk]

Memory == [pl : [Players -> PlayerRecord],
           ses : [Clients -> Players \union {Null}],
           fault : BOOLEAN]

------------------------------------------------------------------------------
(* Pointers.                                                               *)

Live(m, x) == x # Null /\ m.pl[x].alive

\* The memory r of a piece of code that dereferences the pointers of S first.
Using(m, S, r) ==
  IF m.fault \/ (\E x \in S : ~ Live(m, x)) THEN [m EXCEPT !.fault = TRUE] ELSE r

\* The same, for code that sends a packet to the users among S: their session is
\* dereferenced too.
Sending(m, S, r) ==
  Using(m, S, IF \E x \in S : m.pl[x].kind = "user" /\ m.pl[x].sess = Null
                THEN [m EXCEPT !.fault = TRUE] ELSE r)

\* The neighbours of p that exist.
Neighbours(m, p) == {m.pl[p].left, m.pl[p].right} \ {Null}

Delete(m, p) == Using(m, {p}, [m EXCEPT !.pl[p].alive = FALSE])

SetStatus(m, p, s) == [m EXCEPT !.pl[p].st = s]

\* getPlayerType() & PLAYER_TYPE_AI, and & PLAYER_TYPE_USER
PlaysItself(m, p) == m.pl[p].kind \in {"ai", "replace"}
WasUser(m, p) == m.pl[p].kind \in {"user", "replace"}

LogOut(m, p) == m.pl[p].st = LOG_OUTED
Idle(m, p) == m.pl[p].q = NULL
Expired(m, p) == m.pl[p].exp < 0
RoundOver(m, p) == m.pl[p].st = ROUNDOVERED
InTheGame(m, p) == m.pl[p].st % 16 \in GRABING .. ROUNDOVERING

\* setStart
SetStart(m, p) == [m EXCEPT !.pl[p].st = STARTING, !.pl[p].started = TRUE]

------------------------------------------------------------------------------
(* checkOutPlayer: leaving, from a lobby table or from a game.             *)

\* A game is under way: from the dealt cards to the last card.
MidGame(s) == s \in DEALED .. OUT_CARDED

\* Mutant: the session keeps its pointer to the player.
DropSession_Half(m, p) == [m EXCEPT !.pl[p].sess = Null]

\* The session and the player forget each other.
DropSession(m, p) ==
  IF m.pl[p].sess = Null THEN m
  ELSE [m EXCEPT !.ses[m.pl[p].sess] = Null, !.pl[p].sess = Null]

\* Mutant: the player that stays is still taken for a user.
LeaveGame_StaysUser(m, p) ==
  LET l == m.pl[p].left
      r == m.pl[p].right
      stays == m.pl[l].kind = "user" \/ m.pl[r].kind = "user"
  IN  Using(m, {l, r},
        IF stays THEN SetStatus(m, p, m.pl[p].st % 16)
                 ELSE [m EXCEPT !.pl[l].st = LOG_OUTING, !.pl[r].st = LOG_OUTING,
                                !.pl[p].st = LOG_OUTED, !.pl[p].kind = "replace"])

\* Mutant: only the left neighbour is told that the last user has left.
LeaveGame_TellsLeft(m, p) ==
  LET l == m.pl[p].left
      r == m.pl[p].right
      stays == m.pl[l].kind = "user" \/ m.pl[r].kind = "user"
      n == IF stays THEN SetStatus(m, p, m.pl[p].st % 16)
                    ELSE [m EXCEPT !.pl[l].st = LOG_OUTING, !.pl[p].st = LOG_OUTED]
  IN  Using(m, {l, r}, [n EXCEPT !.pl[p].kind = "replace"])

\* Leaving a game: an AI takes the user's place while another user is at the
\* table; otherwise the two others are told to leave.
LeaveGame(m, p) ==
  LET l == m.pl[p].left
      r == m.pl[p].right
      stays == m.pl[l].kind = "user" \/ m.pl[r].kind = "user"
      n == IF stays
             THEN SetStatus(m, p, m.pl[p].st % 16)
             ELSE [m EXCEPT !.pl[l].st = LOG_OUTING, !.pl[r].st = LOG_OUTING,
                            !.pl[p].st = LOG_OUTED]
  IN  Using(m, {l, r}, [n EXCEPT !.pl[p].kind = "replace"])

\* Without a game a table is left one side at a time: the neighbour y forgets who
\* leaves (k is the memory after that), and an AI neighbour leaves too (after is the
\* memory after its checkOutPlayer).
Forgotten(n, y, k, after) ==
  IF n.fault \/ y = Null THEN n
  ELSE Using(n, {y}, IF k.pl[y].kind = "ai" THEN after ELSE k)

FreeLeft(n, x) == [n EXCEPT !.pl[n.pl[x].left].right = Null]
FreeRight(n, x) == [n EXCEPT !.pl[n.pl[x].right].left = Null]
ToldLeft(n, x) == SetStatus(FreeLeft(n, x), n.pl[x].left, LOG_OUTING)
ToldRight(n, x) == SetStatus(FreeRight(n, x), n.pl[x].right, LOG_OUTING)

\* Rec is the checkOutPlayer of a neighbour.
LeftForgets(n, x, Rec(_, _)) ==
  Forgotten(n, n.pl[x].left, FreeLeft(n, x), Rec(ToldLeft(n, x), n.pl[x].left))
RightForgets(n, x, Rec(_, _)) ==
  Forgotten(n, n.pl[x].right, FreeRight(n, x), Rec(ToldRight(n, x), n.pl[x].right))

HasLeft(n, x) ==
  [n EXCEPT !.pl[x].left = Null, !.pl[x].right = Null, !.pl[x].st = LOG_OUTED]
LeaveTable(n, x, Rec(_, _)) == HasLeft(RightForgets(LeftForgets(n, x, Rec), x, Rec), x)

\* checkOutPlayer.  The recursion follows the links of a table of three: it is
\* unrolled, and the fault at the bottom marks one that goes round.
CheckOut(n, x, Rec(_, _)) ==
  IF n.fault \/ n.pl[x].st \notin 16 .. 31 THEN n
  ELSE Sending(n, {x} \union Neighbours(n, x),
         DropSession(IF MidGame(n.pl[x].st % 16) THEN LeaveGame(n, x)
                                                 ELSE LeaveTable(n, x, Rec), x))
Round(n, x) == [n EXCEPT !.fault = TRUE]
CheckOut1(n, x) == CheckOut(n, x, Round)
CheckOut2(n, x) == CheckOut(n, x, CheckOut1)
CheckOut3(n, x) == CheckOut(n, x, CheckOut2)
CheckOutPlayer(m, p) == CheckOut(m, p, CheckOut3)

\* _gameStatus | GAME_STATUS_LOG_OUTING
LoggingOut(s) == IF s \in 0 .. 15 \/ s = LOG_OUTED THEN s + LOG_OUTING ELSE s

\* logOutPlayer
LogOutPlayer(m, p) ==
  Using(m, {p}, CheckOutPlayer(SetStatus(m, p, LoggingOut(m.pl[p].st)), p))

------------------------------------------------------------------------------
(* The lobby part of Player::Update.                                       *)

\* Mutant: one neighbour is enough for a table of three.
CheckQueueStatus_AnyLink(m, p) ==
  LET l == m.pl[p].left
      r == m.pl[p].right
  IN  IF m.fault \/ m.pl[p].q = THREE \/ (l = Null /\ r = Null) THEN m
      ELSE Using(m, Neighbours(m, p), Sending(m, {p},
             [m EXCEPT !.pl[p].q = THREE, !.pl[p].desk = <<l, r>>]))

\* sendTwoDesk and sendThreeDesk send the neighbours' data to a user.
CheckQueueStatus(m, p) ==
  LET l == m.pl[p].left
      r == m.pl[p].right
      flag == CASE l # Null /\ r # Null -> THREE
                [] l = Null /\ r = Null -> m.pl[p].q
                [] OTHER -> TWO
      n == [m EXCEPT !.pl[p].q = flag]
  IN  IF m.fault \/ m.pl[p].q = flag THEN m
      ELSE IF m.pl[p].kind # "user" THEN n
      ELSE Using(m, Neighbours(m, p), Sending(m, {p},
             IF flag = THREE THEN [n EXCEPT !.pl[p].desk = <<l, r>>] ELSE n))

\* checkStart
CheckStart(m, p) ==
  IF m.pl[p].st # STARTING THEN m
  ELSE Sending(m, Neighbours(m, p), SetStatus(m, p, STARTED))

------------------------------------------------------------------------------
(* Dealing, bidding.  A table bids once around from a random first bidder. *)

\* getDefaultLandlordUserId, which chooses on its first call at a table.
ChooseDefault(m, p, who) ==
  LET l == m.pl[p].left
      r == m.pl[p].right
      first == CASE who = 0 -> p [] who = 1 -> l [] OTHER -> r
  IN  IF m.pl[p].deflt # Null THEN m
      ELSE Using(m, {l, r},
             LET id == m.pl[first].id
             IN  [m EXCEPT !.pl[p].deflt = id, !.pl[l].deflt = id, !.pl[r].deflt = id])

\* checkDealCards; the first bidder may be an AI, which is told to bid.
Dealt(m, p) ==
  Sending(m, {p}, SetStatus(m, p,
    IF m.pl[p].deflt = m.pl[p].id /\ PlaysItself(m, p) THEN GRABING ELSE DEALED))

CheckDealCards(m, p, who) ==
  IF m.fault \/ m.pl[p].st # DEALING THEN m ELSE Dealt(ChooseDefault(m, p, who), p)

\* aiGrabLandlord: the scores are compared as unsigned numbers, so a neighbour
\* that has not bid (-1) is the largest; roll is rand() % 4.
AiBid(m, p, roll) ==
  LET l == m.pl[m.pl[p].left].bid
      r == m.pl[m.pl[p].right].bid
  IN  CASE l = -1 /\ r = -1 -> roll
        [] l = 0 /\ r = 0 -> 1
        [] OTHER -> 0

\* getLandlordId remembers the winner once all three have bid or one has bid 3:
\* the player itself before its left, and its left before its right neighbour.
FindLandlord(m, p) ==
  LET l == m.pl[p].left
      r == m.pl[p].right
      bids == {m.pl[p].bid, m.pl[l].bid, m.pl[r].bid}
      top == Max(bids)
      winner == CASE top = m.pl[p].bid -> p
                  [] top # m.pl[p].bid /\ top = m.pl[l].bid -> l
                  [] OTHER -> r
  IN  IF m.fault \/ m.pl[p].lord # Null THEN m
      ELSE Using(m, {l, r}, IF -1 \notin bids \/ top = 3
                              THEN [m EXCEPT !.pl[p].lord = m.pl[winner].id]
                              ELSE m)

\* Mutant: the right neighbour is not told who the landlord is.
BeginOutCard_LeftOnly(m, p) ==
  LET l == m.pl[p].left
      r == m.pl[p].right
  IN  Using(m, {l, r},
        [m EXCEPT !.pl[l].lord = m.pl[p].lord, !.pl[p].st = WAIT_OUT_CARD,
                  !.pl[l].st = WAIT_OUT_CARD, !.pl[r].st = WAIT_OUT_CARD])

\* beginOutCard
BeginOutCard(m, p) ==
  LET l == m.pl[p].left
      r == m.pl[p].right
  IN  Using(m, {l, r},
        [m EXCEPT !.pl[l].lord = m.pl[p].lord, !.pl[r].lord = m.pl[p].lord,
                  !.pl[p].st = WAIT_OUT_CARD, !.pl[l].st = WAIT_OUT_CARD,
                  !.pl[r].st = WAIT_OUT_CARD])

\* Mutant: an AI bids only when it is the first to bid.
AiTakesTurn_FirstOnly(m, p) ==
  IF m.pl[p].st = DEALED /\ PlaysItself(m, p) /\ m.pl[p].deflt = m.pl[p].id
    THEN SetStatus(m, p, GRABING) ELSE m

\* The first block of checkGrabLandlord: is it the turn of an AI?
AiTakesTurn(m, p) ==
  LET l == m.pl[p].left
      mine == m.pl[p].deflt = m.pl[p].id
  IN  IF m.pl[p].st # DEALED \/ ~ PlaysItself(m, p) THEN m
      ELSE IF mine THEN SetStatus(m, p, GRABING)
      ELSE Using(m, {l}, IF m.pl[l].st = GRABED THEN SetStatus(m, p, GRABING) ELSE m)

\* The second: the bid is made (by an AI, when its delay is over) and sent.
BidOfAi(m, p, roll) ==
  IF ~ PlaysItself(m, p) THEN m
  ELSE Using(m, {m.pl[p].left, m.pl[p].right},
         [m EXCEPT !.pl[p].bid = AiBid(m, p, roll), !.pl[p].delay = AiDelay])

BidIsSent(m, p) ==
  Sending(m, {p, m.pl[p].left, m.pl[p].right}, SetStatus(m, p, GRABED))

AnnounceBid(m, p, roll) ==
  IF m.fault \/ m.pl[p].st # GRABING \/ (PlaysItself(m, p) /\ m.pl[p].delay > 0) THEN m
  ELSE BidIsSent(FindLandlord(BidOfAi(m, p, roll), p), p)

\* The third: three zero bids put the player back to the deal, a landlord starts
\* the game.  Both may happen in one call.
DealAgain(m, p) ==
  LET l == m.pl[p].left
      r == m.pl[p].right
  IN  IF m.pl[p].bid # 0 THEN m
      ELSE Using(m, {l}, IF m.pl[l].bid # 0 THEN m
      ELSE Using(m, {r}, IF m.pl[r].bid # 0 THEN m
      ELSE [m EXCEPT !.pl[p].deflt = Null, !.pl[p].bid = -1, !.pl[p].st = STARTED]))

BeginGame(m, p) == IF m.fault \/ m.pl[p].lord = Null THEN m ELSE BeginOutCard(m, p)

SettleBids(m, p) ==
  IF m.fault \/ m.pl[p].st # GRABED THEN m
  ELSE BeginGame(FindLandlord(DealAgain(m, p), p), p)

\* checkGrabLandlord: the last block is reached only by the call that bids.
CheckGrabLandlord(m, p, roll) ==
  IF m.fault \/ m.pl[p].st \notin {DEALED, GRABING} THEN m
  ELSE SettleBids(AnnounceBid(AiTakesTurn(m, p), p, roll), p)

------------------------------------------------------------------------------
(* Playing cards and the end of a round.                                   *)

\* Mutant: an AI follows, but an AI landlord does not start.
AiPlaysNext_NoStart(m, p) ==
  LET l == m.pl[p].left
  IN  IF ~ PlaysItself(m, p) THEN m
      ELSE Using(m, {l}, IF m.pl[l].st = OUT_CARDED THEN SetStatus(m, p, OUT_CARDING) ELSE m)

\* checkOutCard, first part: the AI landlord starts; an AI follows its left.
AiStarts(m, p) == m.pl[p].st = WAIT_OUT_CARD /\ m.pl[p].lord = m.pl[p].id

AiPlays(m, p) ==
  LET l == m.pl[p].left
  IN  IF m.fault THEN m
      ELSE IF AiStarts(m, p) THEN SetStatus(m, p, OUT_CARDING)
      ELSE Using(m, {l}, IF m.pl[l].st = OUT_CARDED THEN SetStatus(m, p, OUT_CARDING) ELSE m)

AiPlaysNext(m, p) ==
  IF ~ PlaysItself(m, p) THEN m
  ELSE AiPlays(IF m.pl[p].st = WAIT_OUT_CARD THEN FindLandlord(m, p) ELSE m, p)

\* Second part: the cards go out (an AI's when its delay is over), and an AI to
\* the right is told that it is its turn.
OutCards(m, p) ==
  LET l == m.pl[p].left
      r == m.pl[p].right
      n == [m EXCEPT !.pl[p].st = OUT_CARDED,
                     !.pl[p].delay = IF PlaysItself(m, p) THEN AiDelay ELSE @]
      read == IF PlaysItself(m, p) THEN {p, l, r} ELSE {p}
  IN  IF m.fault \/ m.pl[p].st # OUT_CARDING \/ (PlaysItself(m, p) /\ m.pl[p].delay > 0) THEN m
      ELSE Using(m, read, Sending(m, {p, l, r},
             IF PlaysItself(m, r) THEN SetStatus(n, r, OUT_CARDING) ELSE n))

\* Last part: when the right neighbour has followed, p waits again.
RightFollowed(m, p) ==
  LET r == m.pl[p].right
  IN  IF m.fault \/ m.pl[p].st # OUT_CARDED THEN m
      ELSE Using(m, {r}, IF m.pl[r].st = OUT_CARDED THEN SetStatus(m, p, WAIT_OUT_CARD) ELSE m)

CheckOutCard(m, p) ==
  IF m.fault \/ m.pl[p].st \notin WAIT_OUT_CARD .. OUT_CARDED THEN m
  ELSE RightFollowed(OutCards(AiPlaysNext(m, p), p), p)

\* resetGame keeps the queue flags of an AI, and started() of everyone.
ResetGame(m, p) ==
  [m EXCEPT
     !.pl[p].q = IF WasUser(m, p) THEN NULL ELSE @,
     !.pl[p].exp = WaitTime, !.pl[p].delay = AiDelay,
     !.pl[p].left = Null, !.pl[p].right = Null,
     !.pl[p].deflt = Null, !.pl[p].bid = -1, !.pl[p].lord = Null]

\* checkRoundOver passes the end of the round on to the AIs at the table: the
\* left one sees it in its own Update, the right one at once (Rec).
MustBeTold(m, x) == PlaysItself(m, x) /\ m.pl[x].st # ROUNDOVERED

PassOn(n, x, Rec(_, _)) ==
  LET l == n.pl[x].left
      r == n.pl[x].right
      a == IF MustBeTold(n, l) THEN SetStatus(n, l, ROUNDOVERING) ELSE n
  IN  Using(n, {l}, Using(a, {r},
        IF MustBeTold(a, r) THEN Rec(SetStatus(a, r, ROUNDOVERING), r) ELSE a))

RoundIsOver(n, x, Rec(_, _)) ==
  LET k == IF n.pl[x].st # ROUNDOVERING THEN n
           ELSE Sending(n, {x}, PassOn(SetStatus(n, x, ROUNDOVERED), x, Rec))
  IN  IF n.fault \/ k.fault \/ k.pl[x].st # ROUNDOVERED THEN k ELSE ResetGame(k, x)

RoundIsOver1(n, x) == RoundIsOver(n, x, Round)
RoundIsOver2(n, x) == RoundIsOver(n, x, RoundIsOver1)
RoundIsOver3(n, x) == RoundIsOver(n, x, RoundIsOver2)
CheckRoundOver(m, p) == RoundIsOver(m, p, RoundIsOver3)

------------------------------------------------------------------------------
(* Player::Update and the calls the room makes.                            *)

Less(x, d, floor) == IF x - d < floor THEN floor ELSE x - d

\* Mutant: the wait of a pair is not timed.
RunClocks_OneOnly(m, p, d) ==
  [m EXCEPT !.pl[p].exp = IF m.pl[p].q = ONE THEN Less(@, d, -1) ELSE @,
            !.pl[p].delay = IF PlaysItself(m, p) /\ m.pl[p].st \in {GRABING, OUT_CARDING}
                              THEN Less(@, d, 0) ELSE @]

\* The clocks of Update and UpdateAiDelay.
RunClocks(m, p, d) ==
  [m EXCEPT !.pl[p].exp = IF m.pl[p].q \in {ONE, TWO} THEN Less(@, d, -1) ELSE @,
            !.pl[p].delay = IF PlaysItself(m, p) /\ m.pl[p].st \in {GRABING, OUT_CARDING}
                              THEN Less(@, d, 0) ELSE @]

\* Player::Update(d); who and roll are the values rand() returns in it.
Update(m, p, d, who, roll) ==
  Using(m, {p},
    CheckRoundOver(CheckOutCard(CheckGrabLandlord(CheckDealCards(CheckStart(
      CheckQueueStatus(CheckOutPlayer(RunClocks(m, p, d), p), p), p), p, who), p, roll), p), p))

\* Mutant: x is not told that p is its neighbour.
AddNeighbour_OneWay(m, p, x) ==
  Using(m, {p, x},
    CASE m.pl[p].left = Null -> [m EXCEPT !.pl[p].left = x, !.pl[p].exp = WaitTime]
      [] m.pl[p].left # Null /\ m.pl[p].right = Null ->
           [m EXCEPT !.pl[p].right = x, !.pl[p].exp = WaitTime]
      [] OTHER -> [m EXCEPT !.pl[p].exp = WaitTime])

\* addPlayer links x on the first free side of p.
AddNeighbour(m, p, x) ==
  LET n == CASE m.pl[p].left = Null -> [m EXCEPT !.pl[p].left = x, !.pl[x].right = p]
             [] m.pl[p].left # Null /\ m.pl[p].right = Null ->
                  [m EXCEPT !.pl[p].right = x, !.pl[x].left = p]
             [] OTHER -> m
  IN  Using(m, {p, x},
        IF x \in {m.pl[p].left, m.pl[p].right} THEN m
        ELSE [n EXCEPT !.pl[p].exp = WaitTime])
==============================================================================
