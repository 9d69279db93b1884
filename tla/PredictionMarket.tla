-------------------------- MODULE PredictionMarket --------------------------
(***************************************************************************)
(* What the three programs promise together.  A market is decided once;    *)
(* its tokens are ConditionalTokens that close with that decision; and the *)
(* bonds pledged to get the decision right leave the market in one way     *)
(* only, all at once with the reward and in the very step that decides.    *)
(***************************************************************************)
EXTENDS ConditionalTokens

CONSTANT Reward

VARIABLES
    decision,        \* "None" until the market is decided
    bonds,           \* what is pledged on the decision, by contract
    awarded          \* whether the bonds have been paid out

marketVars == <<abstractVars, decision, bonds, awarded>>

MarketInit ==
    /\ Init
    /\ decision = [c \in Contract |-> "None"]
    /\ bonds = [c \in Contract |-> 0]
    /\ awarded = [c \in Contract |-> FALSE]

Trade ==
    /\ \/ \E c \in Contract :
             \/ \E payer, a, b \in Owner : \E n \in 1..funds[payer] : Issue(c, payer, a, b, n)
             \/ PassOn(c)
             \/ Destroy(c)
       \/ Spend
    /\ UNCHANGED <<decision, bonds, awarded>>

Pledge(c, o) ==
    /\ ~awarded[c]
    /\ \E n \in 1..funds[o] :
          /\ funds' = [funds EXCEPT ![o] = @ - n]
          /\ bonds' = [bonds EXCEPT ![c] = @ + n]
    /\ UNCHANGED <<pot, long, short, verdict, decision, awarded>>

(* Somebody with the power to simply decides.                              *)
Decide(c, v) ==
    /\ decision[c] = "None"
    /\ decision' = [decision EXCEPT ![c] = v]
    /\ UNCHANGED <<abstractVars, bonds, awarded>>

(* The sponsor may be the winner, and pay the reward out of the bonds.     *)
Award(c, v, winner, sponsor) ==
    LET prize(o) == IF o = winner THEN bonds[c] + Reward ELSE 0
        cost(o) == IF o = sponsor THEN Reward ELSE 0
    IN /\ decision[c] = "None"
       /\ decision' = [decision EXCEPT ![c] = v]
       /\ funds' = [o \in Owner |-> funds[o] + prize(o) - cost(o)]
       /\ bonds' = [bonds EXCEPT ![c] = 0]
       /\ awarded' = [awarded EXCEPT ![c] = TRUE]
       /\ UNCHANGED <<pot, long, short, verdict>>

CloseAsDecided(c) ==
    /\ decision[c] # "None"
    /\ Close(c, decision[c])
    /\ UNCHANGED <<decision, bonds, awarded>>

PayHolder(c, o) == Redeem(c, o) /\ UNCHANGED <<decision, bonds, awarded>>

MarketNext ==
    \/ Trade
    \/ \E c \in Contract :
          \/ \E o \in Owner : Pledge(c, o) \/ PayHolder(c, o)
          \/ \E v \in Verdict :
                \/ Decide(c, v)
                \/ \E winner, sponsor \in Owner : Award(c, v, winner, sponsor)
          \/ CloseAsDecided(c)

MarketSpec == MarketInit /\ [][MarketNext]_marketVars
=============================================================================
