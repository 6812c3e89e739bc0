------------------------------- MODULE MCGame -------------------------------
(***************************************************************************)
(* What the players of a room share, for TLC: the cards of a table, the    *)
(* account of a player, and the AIs that two rooms take from one pool.     *)
(* A behaviour is one of one part, and the other parts stay in their first *)
(* state.                                                                  *)
(*                                                                         *)
(* The constants of Hands are those of a table that users leave at any     *)
(* moment, where AIs take over their cards: a deck of seven, two cards for *)
(* each player and one base card.                                          *)
(***************************************************************************)
EXTENDS SharedPool, Hands, Account

VARIABLE part

gameVars == <<part, handVars, accountVars, vars>>

\* The room may update its players to the right or to the left.
BothWays == {<<0, 1, 2>>, <<0, 2, 1>>}

\* An AI between two users, and a user between two AIs, one of them the landlord.
SomeAis == {{1}, {0, 2}}

\* A user is landlord and nobody leaves; any others are AIs.
Turns == INSTANCE Hands WITH AiDelay <- 2, InitialAis <- {{}, {1}, {2}, {1, 2}}, Leavers <- {}

\* Every sequence of random numbers; the cards are dealt and never played.
Dealing == INSTANCE Hands WITH Rands <- 0 .. 6, Lords <- {}, InitialAis <- {{}}, Leavers <- {}

\* Accounts of words of eight bits, in which three wins in the second room pass the last
\* level, and a loss may be more than there is.
Levels == <<4, 8, 24, 48>>
Golds == [r \in 0 .. 1 |-> 3 + 4 * r]

LoginOf(gold, score, props) == [gold |-> gold, all |-> 5, win |-> 2, rate |-> 40, score |-> score,
                                level |-> 1, props |-> props]
AnyLogins == {LoginOf(g, s, p) : g \in {4, 20}, s \in {0, 4}, p \in {{}, {0}, {1, 14}}}

WinsAndLosses == {-9, 0, 3}
-----------------------------------------------------------------------------
ASSUME GameAssumption ==
  HandsAssumption /\ Turns!HandsAssumption /\ Dealing!HandsAssumption /\ AccountAssumption

HandParts == {"turns", "leaving", "dealing"}
Parts == HandParts \union {"account", "pool"}

GameInit ==
  /\ part \in Parts
  /\ CASE part = "turns" -> Turns!HandsInit [] part = "leaving" -> HandsInit [] OTHER -> Dealing!HandsInit
  /\ part \notin {"turns", "leaving"} => (\A p \in Seats : ctype[p] = PASS) /\ order = <<0, 1, 2>>
  /\ AccountInit /\ Init

\* One deal of every deck: that the cards are dealt again is part of the other tables.
Undealt == \A p \in Seats : dealt[p] = << >>

GameNext ==
  /\ UNCHANGED part
  /\ \/ part = "turns" /\ Turns!HandsNext /\ UNCHANGED <<accountVars, vars>>
     \/ part = "leaving" /\ HandsNext /\ UNCHANGED <<accountVars, vars>>
     \/ part = "dealing" /\ Undealt /\ Dealing!HandsNext /\ UNCHANGED <<accountVars, vars>>
     \/ part = "account" /\ AccountNext /\ UNCHANGED <<handVars, vars>>
     \/ part = "pool" /\ Next /\ UNCHANGED <<handVars, accountVars>>

GameSpec == GameInit /\ [][GameNext]_gameVars
-----------------------------------------------------------------------------
\* The types of the cards and of the account.
TypesOK == /\ part \in Parts /\ AccountTypeOK
           /\ IF part = "leaving" THEN HandsTypeOK ELSE Turns!HandsTypeOK

\* Player.cpp:346-391: the turn goes to the right, when the landlord is a user and nobody
\* leaves, and an AI that has it plays or passes when its delay is over (Player.cpp:282,
\* 347, 387).  OutCardAI.cpp:31: an AI leads only when both others have passed, whatever
\* _cardType they have from an earlier round.
TurnsAreKept ==
  /\ [][part = "turns" => Turns!PlaysInTurn /\ Turns!EarnsItsLead]_gameVars
  /\ [](part = "turns" => Turns!AiAnswers)
=============================================================================
