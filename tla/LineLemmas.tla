----------------------------- MODULE LineLemmas ------------------------------
(***************************************************************************)
(* What is left of a line when a waiter leaves it: the line of an          *)
(* asyncio.Lock, in ConversationScheduler and in OneBotTransport.          *)
(***************************************************************************)
EXTENDS Naturals, Sequences, SequencesExt, SequenceTheorems, TLAPS

\* Removing the i-th shortens the line by one and moves those behind it up.
LEMMA RemoveAtSeq ==
    ASSUME NEW T, NEW s \in Seq(T), NEW i \in 1..Len(s)
    PROVE  /\ RemoveAt(s, i) \in Seq(T)
           /\ Len(RemoveAt(s, i)) = Len(s) - 1
           /\ \A j \in 1..(Len(s) - 1) :
                RemoveAt(s, i)[j] = IF j < i THEN s[j] ELSE s[j + 1]
<1> DEFINE front == SubSeq(s, 1, i - 1)
           back == SubSeq(s, i + 1, Len(s))
<1>1. /\ front \in Seq(T)
      /\ Len(front) = i - 1
      /\ \A j \in 1..(i - 1) : front[j] = s[j]
  OBVIOUS
<1>2. /\ back \in Seq(T)
      /\ Len(back) = Len(s) - i
      /\ \A j \in 1..(Len(s) - i) : back[j] = s[i + j]
  OBVIOUS
<1>3. RemoveAt(s, i) = front \o back
  BY DEF RemoveAt
<1> HIDE DEF front, back
<1>4. /\ front \o back \in Seq(T)
      /\ Len(front \o back) = Len(s) - 1
      /\ \A j \in 1..(Len(s) - 1) :
            (front \o back)[j] = IF j < i THEN front[j] ELSE back[j - (i - 1)]
  BY <1>1, <1>2
<1>5. \A j \in 1..(Len(s) - 1) :
        (IF j < i THEN front[j] ELSE back[j - (i - 1)]) = IF j < i THEN s[j] ELSE s[j + 1]
  <2> SUFFICES ASSUME NEW j \in 1..(Len(s) - 1)
               PROVE  /\ j < i => front[j] = s[j]
                      /\ ~(j < i) => back[j - (i - 1)] = s[j + 1]
    OBVIOUS
  <2>1. j < i => front[j] = s[j]
    BY <1>1
  <2>2. ASSUME ~(j < i)  PROVE back[j - (i - 1)] = s[j + 1]
    <3>1. j - (i - 1) \in 1..(Len(s) - i) /\ i + (j - (i - 1)) = j + 1
      BY <2>2
    <3> QED
      BY <3>1, <1>2
  <2> QED
    BY <2>1, <2>2
<1> QED
  BY <1>3, <1>4, <1>5

\* The first one leaves with what is behind it.
LEMMA TailLeaves ==
    ASSUME NEW T, NEW s \in Seq(T), Len(s) # 0
    PROVE  Tail(s) = RemoveAt(s, 1)
<1>1. /\ Tail(s) \in Seq(T)
      /\ Len(Tail(s)) = Len(s) - 1
      /\ \A j \in 1..Len(Tail(s)) : Tail(s)[j] = s[j + 1]
  OBVIOUS
<1>2. 1 \in 1..Len(s) /\ \A j \in 1..(Len(s) - 1) : ~(j < 1)
  OBVIOUS
<1>3. /\ RemoveAt(s, 1) \in Seq(T)
      /\ Len(RemoveAt(s, 1)) = Len(s) - 1
      /\ \A j \in 1..(Len(s) - 1) : RemoveAt(s, 1)[j] = s[j + 1]
  BY <1>2, RemoveAtSeq
<1>4. /\ Len(Tail(s)) = Len(RemoveAt(s, 1))
      /\ \A j \in 1..Len(Tail(s)) : Tail(s)[j] = RemoveAt(s, 1)[j]
  BY <1>1, <1>3
<1> QED
  BY <1>1, <1>3, <1>4, SeqEqual

==============================================================================
