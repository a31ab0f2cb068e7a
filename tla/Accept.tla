------------------------------- MODULE Accept -------------------------------
(***************************************************************************)
(* The life of one program after another under accept() and test()         *)
(* (netqre2dt/rpc/interface.hpp): partial programs are accepted and        *)
(* mutated, or refused and dropped; a complete one is accepted on the      *)
(* examples of a search, then by MergeSearch on all examples, under the    *)
(* weights its answers share; main accepts the last answer again, prints   *)
(* the threshold and tests it.                                             *)
(*                                                                         *)
(* A program is the interval it answers on each example.  Of what a        *)
(* mutation does to the answers nothing is assumed: with the abstracts of  *)
(* the grammar as they are it need not narrow them.  What PruningSound     *)
(* says of a refused program is about the outcomes within its intervals;   *)
(* AbstractCovers of the module Transducer says of which completions the   *)
(* interpreter makes such outcomes.                                        *)
(***************************************************************************)
EXTENDS Oracle

CONSTANTS
  Parts,         \* the handles MergeSearch searches for: e_train and parts of it
  MaxValue,      \* answers are 0..MaxValue
  Widest,        \* Widest[x]: the interval the starting symbol answers on x
  Programs,      \* what the programs derived from it answer
  accuracy,      \* required_accuracy, in (0, 1]
  Targets,       \* accuracy/accuracy_exp, as weights; one of them is configured
  answer_count

Unmatched == [lower |-> -1, upper |-> -1]

Answer == {a \in [lower : -1..MaxValue, upper : -1..MaxValue] :
             a = Unmatched \/ (0 <= a.lower /\ a.lower <= a.upper)}

ASSUME AcceptAssumption ==
  /\ Parts \subseteq Handle /\ Top \in Parts
  /\ MaxValue \in Nat /\ Widest \in [Example -> Answer]
  /\ Programs \subseteq [Example -> Answer]
  /\ accuracy \in Accuracy
  /\ Targets \subseteq Nat
  /\ answer_count \in Nat \ {0}

VARIABLES
  e,          \* the handle the search is for, of Parts
  stage,      \* how far the program has come, see TypeOK
  answer,     \* answer[x]: the interval exec() returns for example x
  target,     \* accuracy/accuracy_exp, fixed by the configuration
  weight,     \* the constraint: pos_weight and neg_weight
  threshold,  \* e_train->threshold; that of another handle is never read
  found       \* how many answers have been found

vars == <<target, e, stage, answer, weight, threshold, found>>

(* The stages of a program; no weight leaves the range between 1.0 and      *)
(* the target, however often the answers move it.                           *)
TypeOK ==
  /\ target \in Targets
  /\ e \in Parts
  /\ stage \in {"partial",   \* a partial program, about to be accepted or not
                "open",      \* a partial program that is to be mutated
                "refused",   \* a partial program that was not accepted
                "complete",  \* a complete program, about to be accepted or not
                "fits",      \* it is accepted by the search
                "rejected",  \* it is not accepted, then or under the weights
                "found",     \* it is accepted under the weights
                "reported",  \* main has accepted it and holds its threshold
                "disowned"}  \* main does not accept it
  /\ answer \in [Example -> Answer]
  /\ weight \in [Example -> WeightRange(target)]
  /\ threshold \in -1..MaxValue
  /\ found \in 0..answer_count

Init ==
  /\ target \in Targets
  /\ e \in Parts
  /\ stage = "partial"
  /\ answer = Widest
  /\ weight = [x \in Example |-> One]
  /\ threshold = 0
  /\ found = 0

-----------------------------------------------------------------------------
\* One mutation; the program may be complete with it.
Mutate ==
  /\ stage = "open"
  /\ answer' \in Programs
  /\ stage' \in {"partial", "complete"}
  /\ UNCHANGED <<target, e, weight, threshold, found>>

\* "make as much match as possible": lower := upper
Value == [x \in Example |-> answer[x].upper]

\* accept(code, false, e, cfg, nullptr)
AcceptPartial ==
  /\ stage = "partial"
  /\ \E both \in PartialPairings(e, answer) :
       stage' = IF TooManyInvalid(accuracy, answer, both) THEN "refused" ELSE "open"
  /\ UNCHANGED <<target, e, answer, weight, threshold, found>>

\* accept(code, true, e, cfg, nullptr)
AcceptComplete ==
  /\ stage = "complete"
  /\ \E both \in Pairing(e, Value) :
       \/ /\ Accepted(accuracy, NoConstraint, Value, both)
          /\ stage' = "fits"
          /\ threshold' = IF e = Top THEN Threshold(Value, both) ELSE threshold
       \/ /\ ~Accepted(accuracy, NoConstraint, Value, both)
          /\ stage' = "rejected"
          /\ UNCHANGED threshold
  /\ UNCHANGED <<target, e, answer, weight, found>>

\* accept(code, true, top_example, cfg, global_constraint)
AcceptGlobal ==
  /\ stage = "fits"
  /\ \E both \in Pairing(Top, Value) :
       \/ /\ Accepted(accuracy, weight, Value, both)
          /\ stage' = "found"
          /\ found' = found + 1
          /\ threshold' = Threshold(Value, both)
          /\ weight' = Reweighed(accuracy, target, weight, Value, both)
       \/ /\ ~Accepted(accuracy, weight, Value, both)
          /\ stage' = "rejected"
          /\ UNCHANGED <<found, threshold, weight>>
  /\ UNCHANGED <<target, e, answer>>

\* The search turns to another program, for the same examples or the next
\* part of them, unless it has its answers.
NextProgram ==
  /\ \/ stage \in {"open", "refused", "rejected"}
     \/ stage = "found" /\ found < answer_count
  /\ stage' = "partial"
  /\ e' \in Parts
  /\ answer' = Widest
  /\ UNCHANGED <<target, weight, threshold, found>>

\* main accepts an answer again with no constraint, prints the threshold
\* that is there then, and tests the answer.
Report ==
  /\ stage = "found" /\ found = answer_count
  /\ \E both \in Pairing(Top, Value) :
       IF Accepted(accuracy, NoConstraint, Value, both)
         THEN stage' = "reported" /\ threshold' = Threshold(Value, both)
         ELSE stage' = "disowned" /\ UNCHANGED threshold
  /\ UNCHANGED <<target, e, answer, weight, found>>

Next ==
  Mutate \/ AcceptPartial \/ AcceptComplete \/ AcceptGlobal \/ NextProgram \/ Report

Spec == Init /\ [][Next]_vars

-----------------------------------------------------------------------------
(* test() on the training set, of a complete program.                       *)

RightPos == {x \in Pos : Value[x] >= threshold}

RightNeg == {x \in Neg : Value[x] < threshold}

Enough(right, class) ==
  Cardinality(right) * accuracy.den >= accuracy.num * Cardinality(class)

\* What a program within the present intervals could answer.
Outcomes(X) ==
  {v \in [X -> -1..MaxValue] :
     \A x \in X : v[x] = -1 \/ v[x] \in answer[x].lower..answer[x].upper}

\* norm_zip pairs each negative answer of h once, as it does where they are
\* the larger class.
EachNegativeOnce(h) ==
  LET z == norm_zip(Cardinality(h.pos), Cardinality(h.neg))
  IN  Len(z) = Cardinality(h.neg) /\ \A k \in DOMAIN z : z[k][2] = k

(***************************************************************************)
(* A partial program is refused only when no program that answers within    *)
(* its intervals could be accepted, although the two verdicts sort the      *)
(* answers by different bounds, pair them anew and count different pairs as *)
(* invalid: the search drops whole subtrees on the strength of it.  It can  *)
(* miss one that has just as many valid pairs as the accuracy asks for, if  *)
(* 1.0 - accuracy is rounded down (see RefusedForGood).                     *)
(***************************************************************************)
PruningSound ==
  stage = "refused" /\ EachNegativeOnce(e) =>
    \A p \in Outcomes(e.pos), n \in Outcomes(e.neg) :
      LET v == [x \in e.pos \cup e.neg |-> IF x \in e.pos THEN p[x] ELSE n[x]]
      IN  \A both \in Pairing(e, v) :
            Accepted(accuracy, NoConstraint, v, both) =>
              /\ accuracy.low
              /\ Cardinality(Valid(v, both)) * accuracy.den = accuracy.num * Len(both)

(***************************************************************************)
(* The threshold of a program accepted with no constraint, or under weights *)
(* up to 1.0, has enough positive answers on or above it and enough         *)
(* negative answers on or below it, though the classes differ in size.  It  *)
(* is taken from the pair at place invalid_count, which is not always the   *)
(* first valid pair: unmatched negatives come last.                         *)
(***************************************************************************)
ThresholdFits ==
  stage = "reported" \/ (stage = "found" /\ target <= One) =>
    /\ Enough(RightPos, Pos)
    /\ Enough({x \in Neg : Value[x] <= threshold}, Neg)

\* What no weight exceeds.
Heaviest == IF target > One THEN target ELSE One

(***************************************************************************)
(* What was accepted under the weights has nearly the accuracy it was asked *)
(* for: if more is asked for than expected it may fall short by the factor  *)
(* accuracy/accuracy_exp, and no more, however many answers before it have  *)
(* raised the weights.  Else it is accepted without them: main's accept()   *)
(* of a found answer never says no, so the threshold it prints is that      *)
(* answer's and not the one of an earlier program.                          *)
(***************************************************************************)
AnswersStandAlone ==
  /\ stage = "disowned" => target > One
  /\ stage \in {"found", "disowned"} =>
       \A both \in Pairing(Top, Value) :
         Cardinality(Valid(Value, both)) * Heaviest * accuracy.den
           >= accuracy.num * One * Len(both)

(***************************************************************************)
(* The accuracy on the training set of a reported answer, as test() counts  *)
(* it, is the one required (synthesizer/README.md: "the accuracy over       *)
(* training set required to consider a candidate program correct").         *)
(***************************************************************************)
TrainingAccuracy ==
  stage = "reported" => Enough(RightPos, Pos) /\ Enough(RightNeg, Neg)

(***************************************************************************)
(* A partial program is refused only when nothing within its intervals has  *)
(* the accuracy required to consider a program correct, in the same words.  *)
(***************************************************************************)
RefusedForGood ==
  stage = "refused" =>
    \A p \in Outcomes(e.pos), n \in Outcomes(e.neg) :
      LET v == [x \in e.pos \cup e.neg |-> IF x \in e.pos THEN p[x] ELSE n[x]]
      IN  \A both \in Pairing(e, v) : ~Accepted(accuracy, NoConstraint, v, both)
=============================================================================
