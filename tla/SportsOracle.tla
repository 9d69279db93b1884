---------------------------- MODULE SportsOracle ----------------------------
(***************************************************************************)
(* How propose_sports_outcome reduces the answers of its data sources to   *)
(* an outcome: the answer most of them give, letter for letter, must reach *)
(* a majority, and its meaning depends on the type of the event.           *)
(***************************************************************************)
EXTENDS ProposalOracle, SequencesExt

CONSTANT SourceAge           \* the ages an answer may have

VARIABLES
    results,                 \* the answers read so far
    eventType                \* the event they were taken to be about, once decided

sportsVars == <<results, eventType, outcome>>

EventType == {"Winner", "ScoreThreshold", "YesNo"}

(* A word of every arm of determine_sports_outcome, some in two spellings, *)
(* and one no arm knows.                                                   *)
Answer == {"yes", "Yes", "no", "draw", "over", "invalid", "Invalid", "canceled", "Lions"}

ToLowercase(answer) ==
    CASE answer = "Yes" -> "yes"
      [] answer = "Invalid" -> "invalid"
      [] answer = "Lions" -> "lions"
      [] OTHER -> answer

SportsInit ==
    /\ results = <<>>
    /\ eventType = "None"
    /\ outcome = "None"

Votes(s, answer) == Cardinality({i \in DOMAIN s : s[i] = answer})

(* The stable sort leaves the first mentioned of equals in front.          *)
FindConsensus(s) ==
    LET mostVoted == {i \in DOMAIN s : \A j \in DOMAIN s : Votes(s, s[i]) >= Votes(s, s[j])}
    IN s[Min(mostVoted)]

RequiredVotes_Half(total) == IF total = 2 THEN total ELSE (total + 1) \div 2
RequiredVotes(total) == IF total = 2 THEN total ELSE total \div 2 + 1

ConsensusHolds(s) == Votes(s, FindConsensus(s)) >= RequiredVotes(Len(s))

(* "Err" is an answer refused.  The second word of the last arm is written *)
(* with a capital, which no lowercase answer matches.                      *)
DetermineSportsOutcome(event, answer) ==
    LET word == ToLowercase(answer) IN
    CASE event = "Winner" ->
           (CASE word = "yes"  -> "Yes"
              [] word = "no"   -> "No"
              [] word = "draw" -> "Invalid"
              [] OTHER         -> "Yes")
      [] event = "YesNo" ->
           (CASE word = "yes"     -> "Yes"
              [] word = "no"      -> "No"
              [] word = "invalid" -> "Invalid"
              [] OTHER            -> "Err")
      [] event = "ScoreThreshold" ->
           (CASE word \in {"yes", "over"}         -> "Yes"
              [] word = "no"                      -> "No"
              [] word \in {"Invalid", "canceled"} -> "Invalid"
              [] OTHER                            -> "Err")

-----------------------------------------------------------------------------
(* One pass of the loop over oracle_data; here an age equal to the limit   *)
(* is already stale.                                                       *)
ReadSource(answer, age) ==
    /\ outcome = "None"
    /\ Len(results) < MaxDataSources
    /\ age < MaxOracleStaleness
    /\ results' = Append(results, answer)
    /\ UNCHANGED <<eventType, outcome>>

(* What follows the loop.                                                  *)
DecideEvent(event) ==
    /\ outcome = "None"
    /\ results # <<>>
    /\ ConsensusHolds(results)
    /\ DetermineSportsOutcome(event, FindConsensus(results)) # "Err"
    /\ outcome' = DetermineSportsOutcome(event, FindConsensus(results))
    /\ eventType' = event
    /\ UNCHANGED results

SportsNext ==
    \/ \E answer \in Answer, age \in SourceAge : ReadSource(answer, age)
    \/ \E event \in EventType : DecideEvent(event)

SportsSpec == SportsInit /\ [][SportsNext]_sportsVars

-----------------------------------------------------------------------------
(* Properties.                                                             *)

(* A decision does not depend on the order a proposer lists the sources    *)
(* in: listed backwards they would have decided the same.                  *)
OrderDoesNotMatter ==
    eventType # "None" =>
      LET backwards == Reverse(results) IN
      /\ ConsensusHolds(backwards)
      /\ DetermineSportsOutcome(eventType, FindConsensus(backwards)) = outcome

(* No minority decides: most of the sources, each asked alone, would have  *)
(* led to the same outcome.                                                *)
MostSourcesConcur ==
    eventType # "None" =>
      LET concurring == {i \in DOMAIN results :
                           DetermineSportsOutcome(eventType, results[i]) = outcome}
      IN 2 * Cardinality(concurring) > Len(results)
=============================================================================
