------------------------------ MODULE MCSorters ------------------------------
(* Texts end in a byte other than zero, as wolfCompute() leaves them: binary *)
(* ones and words over a few blocks, whose LMS substrings repeat enough for  *)
(* names to be sorted by recursion.  The first hash leaves a long array.     *)
EXTENDS Sorters

AsText(w) == [i \in 0 .. Len(w) - 1 |-> w[i + 1]]
Words(blocks, lengths) ==
  {AsText(FlattenSeq(w)) : w \in UNION {[1 .. n -> blocks] : n \in lengths}}
Ending(texts) == {T \in texts : T[Length(T) - 1] # 0}

Binary == Ending(Words({<<0>>, <<1>>}, 1 .. 7))
Blocks == Words({<<0, 1>>, <<0, 0, 1>>, <<0, 2>>}, 4 .. 4)
\* The names of these repeat again in a string of names, beside unique ones.
Deep == Words({<<0, 0, 1, 0, 1>>, <<0, 0, 1, 0, 0, 1, 0, 1>>, <<0, 0, 1, 0, 2>>}, 3 .. 5)
\* Every second byte begins an LMS suffix: no free cells to count in, and LMS
\* names of several symbols in the string of names.
Dense ==
  {[i \in 0 .. 2 * Length(w) - 1 |-> IF i % 2 = 0 THEN 0 ELSE w[i \div 2] + 1] :
     w \in Words({<<0, 1>>, <<0, 0, 1>>, <<0, 1, 1>>}, 3 .. 4)
           \cup Words({<<0, 2>>, <<1, 2>>}, 3 .. 6)}
LongText == AsText(<<0, 2, 0, 1, 0, 0, 1, 0, 1, 0, 0, 2, 0, 1, 0, 1>>)

\* Chunks of a run are copies of each other in part.
Stampable == Ending(Words({<<0, 1, 0, 1>>, <<0, 0, 0, 1>>, <<0, 1, 1, 0>>}, 1 .. 2))
             \cup Ending(Words({<<0, 1, 0, 1>>, <<1>>, <<0, 0, 1>>}, 1 .. 3))

MCTexts == [libsais |-> <<{LongText}, Binary \cup Blocks \cup Deep \cup Dense>>,
            twobyte |-> <<{LongText}, Binary \cup Blocks \cup Deep \cup Dense>>,
            spsa |-> <<Stampable>>]
MCProcesses ==
  {[sorter |-> "libsais", local |-> l, dense |-> 8192] : l \in {100, 20, 10, 0}}
    \cup {[sorter |-> s, local |-> 100, dense |-> 2] : s \in {"libsais", "twobyte", "spsa"}}

\* What wolfCompute() may leave as p1 and p2 of a run.
Ranges == {<<0, Chunk - 1>>, <<1, 1>>, <<0, 2>>}
\* The bytes of a run's chunks but the last agree with the next chunk's outside
\* p1 .. p2; chunks behind the end do not matter.
Agrees(T, m) ==
  \A i \in m.first * Chunk .. (m.first + m.count - 1) * Chunk - 1 :
    (i % Chunk) \in (m.p1 .. m.p2) \cup {Chunk - 1}
    \/ i + Chunk >= Length(T)
    \/ T[i] = T[i + Chunk]
MCTemplates ==
  [T \in Stampable |->
     {template \in UNION {TemplatesOf(c, Ranges) : c \in 1 .. 2 + Length(T) \div Chunk} :
        \A i \in 1 .. Len(template) : Agrees(T, template[i])}]
=============================================================================
