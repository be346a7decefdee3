------------------------------ MODULE KanaData ------------------------------
(***************************************************************************)
(* The kana groups of utils/kanaData.js and the index choice of            *)
(* utils/mathUtils.js, used by the practice page and the battle pages.  A  *)
(* kana is its group and its place there; glyphs, romaji and labels are    *)
(* left out.                                                               *)
(***************************************************************************)
EXTENDS Integers, Sequences, FiniteSetsExt, SequencesExt

(* The keys of KANA_GROUPS, in file order and under the headings the file  *)
(* gives them.  The categories and sections, by which the pages lay their  *)
(* buttons out, are left out.                                              *)
BasicHiragana == <<"hsingle", "hk", "hs", "ht", "hn", "hh", "hm", "hy", "hr", "hw", "hn1",
                   "hg", "hz", "hd", "hb", "hp">>
BasicKatakana == <<"ksingle", "kk", "ks", "kt", "kn", "kh", "km", "ky", "kr", "kw", "kn1",
                   "kg", "kz", "kd", "kb", "kp">>
HiraganaCombinations == <<"hkya", "hsha", "hcha", "hnya", "hhya", "hmya", "hrya", "hgya",
                          "hja", "hbya", "hpya">>
KatakanaCombinations == <<"kkya", "ksha", "kcha", "knya", "khya", "kmya", "krya", "kgya",
                          "kja", "kbya", "kpya">>

GROUP_IDS == BasicHiragana \o BasicKatakana \o HiraganaCombinations \o KatakanaCombinations
Groups    == Range(GROUP_IDS)

(* How many kana a group holds. *)
CharCount(g) ==
  CASE g \in {"hn1", "kn1"} -> 1
    [] g \in {"hw", "kw"} -> 2
    [] g \in {"hy", "ky"} \cup Range(HiraganaCombinations) \cup Range(KatakanaCombinations) -> 3
    [] OTHER -> 5

kanaCharGroups(g) == [row \in 1..CharCount(g) |-> <<g, row>>]

(* flatMap over the chosen groups, in the order of GROUP_IDS.              *)
Pool(chosen) ==
  FlattenSeq([i \in 1..Len(GROUP_IDS) |->
    IF GROUP_IDS[i] \in chosen THEN kanaCharGroups(GROUP_IDS[i]) ELSE <<>>])
PoolSize(chosen) == MapThenSumSet(CharCount, chosen)

(* What a click on a group does on both pages: the last group cannot be    *)
(* taken away without the vowels coming back.                              *)
\* Mutant: the fallback is missing.
ToggledBare(chosen, g) == IF g \in chosen THEN chosen \ {g} ELSE chosen \cup {g}

Toggled(chosen, g) ==
  LET next == IF g \in chosen THEN chosen \ {g} ELSE chosen \cup {g}
  IN  IF next = {} THEN {"hsingle"} ELSE next

(* getRandomIndex: the indices it may return.                              *)
\* Mutant: the loop that draws again is missing.
RandomIndexAny(current, max) == IF max = 0 THEN {0} ELSE 0..(max - 1)

RandomIndex(current, max) ==
  IF max <= 1 THEN {0} ELSE (0..(max - 1)) \ {current}
=============================================================================
