-------------------------- MODULE ConditionalTokens -------------------------
(***************************************************************************)
(* What the escrow promises, without vault accounts, program calls, pauses *)
(* or clocks.  A contract issues long and short tokens in pairs against a  *)
(* stake, closes once with a verdict, and redeems by that verdict, at      *)
(* their whole worth and all at once, the tokens an owner brings.  It says *)
(* what a redemption must do and not that one is ever made: that the pot   *)
(* covers what it has to pay, and no owner is refused, the escrow's own    *)
(* CollateralCoversTokens and EveryClaimSucceeds say.                      *)
(***************************************************************************)
EXTENDS Integers

CONSTANTS Contract, Owner, InitialFunds, Stake

VARIABLES
    funds,           \* what every owner has to spend
    pot,             \* the stakes a contract holds
    long, short,     \* tokens, by contract and owner
    verdict          \* "None" until the contract is closed

abstractVars == <<funds, pot, long, short, verdict>>

Verdict == {"Yes", "No", "Invalid"}

(* A pair is worth its stake under every verdict.                          *)
Worth(v, l, s) ==
    CASE v = "Yes" -> l * Stake
      [] v = "No" -> s * Stake
      [] v = "Invalid" -> (l * Stake) \div 2 + (s * Stake) \div 2

Init ==
    /\ funds = InitialFunds
    /\ pot = [c \in Contract |-> 0]
    /\ long = [c \in Contract |-> [o \in Owner |-> 0]]
    /\ short = [c \in Contract |-> [o \in Owner |-> 0]]
    /\ verdict = [c \in Contract |-> "None"]

Issue(c, payer, a, b, n) ==
    /\ verdict[c] = "None"
    /\ n > 0 /\ n * Stake <= funds[payer]
    /\ funds' = [funds EXCEPT ![payer] = @ - n * Stake]
    /\ pot' = [pot EXCEPT ![c] = @ + n * Stake]
    /\ long' = [long EXCEPT ![c][a] = @ + n]
    /\ short' = [short EXCEPT ![c][b] = @ + n]
    /\ UNCHANGED verdict

Close(c, v) ==
    /\ verdict[c] = "None"
    /\ verdict' = [verdict EXCEPT ![c] = v]
    /\ UNCHANGED <<funds, pot, long, short>>

Redeem(c, o) ==
    LET worth == Worth(verdict[c], long[c][o], short[c][o])
    IN /\ verdict[c] # "None"
       /\ long[c][o] > 0 \/ short[c][o] > 0
       /\ funds' = [funds EXCEPT ![o] = @ + worth]
       /\ pot' = [pot EXCEPT ![c] = @ - worth]
       /\ long' = [long EXCEPT ![c][o] = 0]
       /\ short' = [short EXCEPT ![c][o] = 0]
       /\ UNCHANGED verdict

(* Owners may pass on or destroy tokens and spend funds elsewhere.         *)
PassOn(c) ==
    /\ \E a \in Owner, b \in Owner :
          /\ a # b
          /\ \/ /\ \E n \in 1..long[c][a] :
                      long' = [long EXCEPT ![c][a] = long[c][a] - n,
                                               ![c][b] = long[c][b] + n]
                /\ UNCHANGED short
             \/ /\ \E n \in 1..short[c][a] :
                      short' = [short EXCEPT ![c][a] = short[c][a] - n,
                                                 ![c][b] = short[c][b] + n]
                /\ UNCHANGED long
    /\ UNCHANGED <<funds, pot, verdict>>

Destroy(c) ==
    /\ \E o \in Owner :
          \/ /\ \E n \in 1..long[c][o] : long' = [long EXCEPT ![c][o] = @ - n]
             /\ UNCHANGED short
          \/ /\ \E n \in 1..short[c][o] : short' = [short EXCEPT ![c][o] = @ - n]
             /\ UNCHANGED long
    /\ UNCHANGED <<funds, pot, verdict>>

Spend ==
    /\ \E o \in Owner : \E n \in 1..funds[o] : funds' = [funds EXCEPT ![o] = @ - n]
    /\ UNCHANGED <<pot, long, short, verdict>>

Next ==
    \/ \E c \in Contract :
          \/ \E payer, a, b \in Owner : \E n \in 1..funds[payer] : Issue(c, payer, a, b, n)
          \/ \E v \in Verdict : Close(c, v)
          \/ \E o \in Owner : Redeem(c, o)
          \/ PassOn(c)
          \/ Destroy(c)
    \/ Spend

Spec == Init /\ [][Next]_abstractVars
=============================================================================
