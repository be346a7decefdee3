------------------------------ MODULE Practice ------------------------------
(***************************************************************************)
(* The practice page, pages/KanaPracticePage.js: its state hooks, the      *)
(* effect that runs when the pool changes, and its handlers.  React runs   *)
(* an effect before the next event, so it belongs to the action that       *)
(* causes it.                                                              *)
(***************************************************************************)
EXTENDS KanaData

CONSTANTS
  Clicked,    \* bound: the groups whose checkbox the user clicks
  MaxCount    \* bound: answers counted before the pool changes

ASSUME ClickedAssumption == Clicked \subseteq Groups
ASSUME MaxCountAssumption == MaxCount \in Nat

VARIABLES checkedGroups, currentIndex, userInput, message, count, incorrectCount, showRomanji

practiceVars ==
  <<checkedGroups, currentIndex, userInput, message, count, incorrectCount, showRomanji>>

NoKana == <<"none", 0>>
Text(kind, kana) == [kind |-> kind, kana |-> kana]
Say(kind) == Text(kind, NoKana)

pool == Pool(checkedGroups)

(* safeIndex and currentChar: the kana on display.                         *)
\* Mutant: the index is not brought back into the pool.
SafeIndexRaw(index, size) == index
SafeIndex(index, size) == IF index < size THEN index ELSE size - 1

Shown(chosen, index) ==
  LET at == SafeIndex(index, PoolSize(chosen)) + 1
  IN  IF at \in 1..PoolSize(chosen) THEN Pool(chosen)[at] ELSE NoKana
currentChar == Shown(checkedGroups, currentIndex)

(* The effect on [pool]: it also runs when the page opens.                 *)
\* Mutant: the text of the last answer stays.
PoolEffectSilent ==
  /\ count' = 0
  /\ incorrectCount' = 0
  /\ userInput' = ""
  /\ UNCHANGED message

PoolEffect ==
  /\ message' = Say("poolUpdated")
  /\ count' = 0
  /\ incorrectCount' = 0
  /\ userInput' = ""

PracticeInit ==
  /\ checkedGroups = {"hsingle"}
  /\ currentIndex = 0
  /\ userInput = ""
  /\ message = Say("poolUpdated")
  /\ count = 0
  /\ incorrectCount = 0
  /\ showRomanji = FALSE

toggleCheckbox ==
  \E g \in Clicked :
    /\ checkedGroups' = Toggled(checkedGroups, g)
    /\ PoolEffect
    /\ UNCHANGED <<currentIndex, showRomanji>>

(* handleInputChange, by how the typed text compares with the romaji.      *)
AnswerRight ==
  /\ count < MaxCount
  /\ message' = Say("correct")
  /\ count' = count + 1
  /\ userInput' = ""
  /\ showRomanji' = FALSE
  /\ currentIndex' \in RandomIndex(currentIndex, Len(pool))
  /\ UNCHANGED <<checkedGroups, incorrectCount>>

AnswerWrong ==
  /\ incorrectCount < MaxCount
  /\ message' = Text("incorrect", currentChar)
  /\ incorrectCount' = incorrectCount + 1
  /\ userInput' = "wrong"
  /\ showRomanji' = TRUE
  /\ UNCHANGED <<checkedGroups, currentIndex, count>>

TypeOn ==
  /\ userInput' = "short"
  /\ message' = Say("")
  /\ UNCHANGED <<checkedGroups, currentIndex, count, incorrectCount, showRomanji>>

Hover ==
  /\ showRomanji' \in BOOLEAN
  /\ UNCHANGED <<checkedGroups, currentIndex, userInput, message, count, incorrectCount>>

PracticeStep == toggleCheckbox \/ AnswerRight \/ AnswerWrong \/ TypeOn \/ Hover

(* The page is unmounted; its next visit starts afresh.                    *)
PracticeReset ==
  /\ checkedGroups' = {"hsingle"}
  /\ currentIndex' = 0
  /\ userInput' = ""
  /\ message' = Say("poolUpdated")
  /\ count' = 0
  /\ incorrectCount' = 0
  /\ showRomanji' = FALSE
=============================================================================
