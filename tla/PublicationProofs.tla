------------------------- MODULE PublicationProofs -------------------------
(***************************************************************************)
(* What Publication.tla guarantees for any commands, files, edits and      *)
(* deaths: a calibration that lets gate was computed by                    *)
(* validate_calibration, and nothing else lights a gate.                   *)
(***************************************************************************)
EXTENDS Publication, SequenceTheorems, FiniteSetTheorems, TLAPS

USE DEF Outputs

-----------------------------------------------------------------------------
(* Sequences of what was read.                                             *)

LEMMA EmptyWasRead == WasRead(<<>>) /\ ToSet(<<>>) = {}
  BY DEF WasRead, ToSet

LEMMA SeqOfMore == ASSUME NEW S, NEW s \in Seq(S), NEW x PROVE s \in Seq(S \cup {x})
OBVIOUS

LEMMA AppendWasRead ==
  ASSUME NEW s, WasRead(s), NEW x, x \notin {Nothing, Torn}
  PROVE  /\ WasRead(Append(s, x))
         /\ ToSet(Append(s, x)) = ToSet(s) \cup {x}
<1> DEFINE T == ToSet(s) \cup {x}
<1> DEFINE t == Append(s, x)
<1>1. s \in Seq(T) /\ x \in T
  <2>1. s \in Seq(ToSet(s)) /\ ToSet(s) \subseteq T
    BY DEF WasRead
  <2> HIDE DEF T
  <2>2. ToSet(s) \subseteq T => Seq(ToSet(s)) \subseteq Seq(T)
    OBVIOUS
  <2>3. x \in T
    BY DEF T
  <2> QED
    BY <2>1, <2>2, <2>3
<1>2. /\ t \in Seq(T) /\ Len(t) = Len(s) + 1
      /\ \A i \in 1..Len(s) : t[i] = s[i]
      /\ t[Len(s) + 1] = x
  <2> HIDE DEF T
  <2> QED
    BY <1>1
<1>3. /\ DOMAIN s = 1..Len(s) /\ DOMAIN t = 1..Len(t) /\ Len(s) \in Nat
  <2> HIDE DEF T, t
  <2> QED
    BY <1>1, <1>2
<1>4. ToSet(t) = T
  <2> HIDE DEF t
  <2>1. ToSet(t) = {t[i] : i \in 1..Len(t)} /\ ToSet(s) = {s[i] : i \in 1..Len(s)}
    BY <1>3 DEF ToSet
  <2>2. 1..Len(t) = (1..Len(s)) \cup {Len(s) + 1}
    BY <1>2, <1>3
  <2>3. {t[i] : i \in 1..Len(t)} = {s[i] : i \in 1..Len(s)} \cup {x}
    BY <2>2, <1>2
  <2> QED
    BY <2>1, <2>3
<1>5. WasRead(t)
  <2>1. T \cap {Nothing, Torn} = {}
    BY DEF WasRead
  <2> HIDE DEF T, t
  <2> QED
    BY <1>2, <1>4, <2>1 DEF WasRead
<1> QED
  BY <1>4, <1>5

-----------------------------------------------------------------------------
(* What is held after a step.                                              *)

Genuine(k, digests) == IsA(k, "calibration") /\ k.digest.gating => k.digest \in digests

LEMMA Keeps ==
  ASSUME InductiveInvariant, NEW N,
         pc' \in [Commands -> Places],
         disk' = [f \in Files |-> disk'[f]],
         seen' = [c \in Commands |-> seen'[c]],
         draft' = [c \in Commands |-> draft'[c]],
         \A c \in Commands : WasRead(seen'[c]) /\ ToSet(seen'[c]) \subseteq Held,
         \A f \in Files : disk'[f] \in Held \cup N,
         \A c \in Commands : draft'[c] \in Held \cup N,
         Earned \subseteq Earned',
         \A k \in N : WellMade(k) /\ Genuine(k, Earned')
  PROVE  InductiveInvariant'
<1>1. Held' \subseteq Held \cup N
  BY DEF Held
<1>2. \A k \in Held' : WellMade(k) /\ Genuine(k, Earned')
  <2>1. \A k \in Held : WellMade(k) /\ Genuine(k, Earned)
    BY DEF InductiveInvariant, TypeInvariant, DigestsAreGenuine, Genuine
  <2>2. \A k : Genuine(k, Earned) => Genuine(k, Earned')
    BY DEF Genuine
  <2> QED
    BY <1>1, <2>1, <2>2
<1>3. TypeInvariant'
  BY <1>2 DEF TypeInvariant
<1>4. DigestsAreGenuine'
  BY <1>2 DEF DigestsAreGenuine, Genuine
<1> QED
  BY <1>3, <1>4 DEF InductiveInvariant

\* What is held in each place.
LEMMA InHeld ==
  /\ \A f \in Files : disk[f] \in Held
  /\ \A c \in Commands : draft[c] \in Held /\ ToSet(seen[c]) \subseteq Held
BY DEF Held

LEMMA NothingIsFine == \A digests : \A k \in {Nothing, Torn} : WellMade(k) /\ Genuine(k, digests)
BY DEF WellMade, Genuine, IsA

\* A command that ends holds nothing any more.
LEMMA Ends ==
  ASSUME TypeInvariant, NEW c \in Commands, End(c)
  PROVE  /\ pc' \in [Commands -> Places]
         /\ seen' = [d \in Commands |-> seen'[d]] /\ draft' = [d \in Commands |-> draft'[d]]
         /\ \A d \in Commands : WasRead(seen'[d]) /\ ToSet(seen'[d]) \subseteq Held
         /\ \A d \in Commands : draft'[d] \in Held \cup {Nothing, Torn}
<1>1. pc' \in [Commands -> Places]
  BY DEF End, TypeInvariant, Places
<1>2. /\ seen' = [d \in Commands |-> seen'[d]]
      /\ \A d \in Commands : seen'[d] = IF d = c THEN <<>> ELSE seen[d]
  BY DEF End, TypeInvariant
<1>3. /\ draft' = [d \in Commands |-> draft'[d]]
      /\ \A d \in Commands : draft'[d] = IF d = c THEN Nothing ELSE draft[d]
  BY DEF End, TypeInvariant
<1>4. \A d \in Commands : WasRead(seen'[d]) /\ ToSet(seen'[d]) \subseteq Held
  BY <1>2, EmptyWasRead, InHeld DEF TypeInvariant
<1>5. \A d \in Commands : draft'[d] \in Held \cup {Nothing, Torn}
  BY <1>3, InHeld
<1> QED
  BY <1>1, <1>2, <1>3, <1>4, <1>5

\* A step that leaves what was read and what is drafted alone.
LEMMA Moves ==
  ASSUME TypeInvariant, NEW c \in Commands, NEW place \in Places,
         pc' = [pc EXCEPT ![c] = place] \/ UNCHANGED pc, UNCHANGED <<seen, draft>>
  PROVE  /\ pc' \in [Commands -> Places]
         /\ seen' = [d \in Commands |-> seen'[d]] /\ draft' = [d \in Commands |-> draft'[d]]
         /\ \A d \in Commands : WasRead(seen'[d]) /\ ToSet(seen'[d]) \subseteq Held
         /\ \A d \in Commands : draft'[d] \in Held
<1>1. pc' \in [Commands -> Places]
  BY DEF TypeInvariant
<1>2. /\ seen' = [d \in Commands |-> seen'[d]] /\ draft' = [d \in Commands |-> draft'[d]]
      /\ \A d \in Commands : WasRead(seen'[d]) /\ ToSet(seen'[d]) \subseteq Held
      /\ \A d \in Commands : draft'[d] \in Held
  BY InHeld DEF TypeInvariant
<1> QED
  BY <1>1, <1>2

\* A file that is replaced.
LEMMA Replaced ==
  ASSUME TypeInvariant, NEW f, NEW k, disk' = [disk EXCEPT ![f] = k]
  PROVE  /\ disk' = [g \in Files |-> disk'[g]]
         /\ \A g \in Files : disk'[g] \in Held \cup {k}
<1>1. disk = [g \in Files |-> disk[g]]
  BY DEF TypeInvariant
<1>2. /\ disk' = [g \in Files |-> disk'[g]]
      /\ \A g \in Files : disk'[g] \in {disk[g], k}
  BY <1>1
<1> QED
  BY <1>2, InHeld

LEMMA SameDisk ==
  ASSUME TypeInvariant, UNCHANGED disk
  PROVE  disk' = [g \in Files |-> disk'[g]] /\ \A g \in Files : disk'[g] \in Held
BY InHeld DEF TypeInvariant

\* A command that has decided what to write.
LEMMA Drafts ==
  ASSUME TypeInvariant, NEW c \in Commands, NEW place \in Places, NEW content,
         Writes(c, content, place)
  PROVE  /\ pc' \in [Commands -> Places]
         /\ seen' = [d \in Commands |-> seen'[d]] /\ draft' = [d \in Commands |-> draft'[d]]
         /\ \A d \in Commands : WasRead(seen'[d]) /\ ToSet(seen'[d]) \subseteq Held
         /\ \A d \in Commands : draft'[d] \in Held \cup {content}
<1>1. pc' \in [Commands -> Places]
  BY DEF Writes, TypeInvariant
<1>2. /\ draft' = [d \in Commands |-> draft'[d]]
      /\ \A d \in Commands : draft'[d] \in {draft[d], content}
  BY DEF Writes, TypeInvariant
<1>3. /\ seen' = [d \in Commands |-> seen'[d]]
      /\ \A d \in Commands : WasRead(seen'[d]) /\ ToSet(seen'[d]) \subseteq Held
  BY InHeld DEF Writes, TypeInvariant
<1> QED
  BY <1>1, <1>2, <1>3, InHeld

-----------------------------------------------------------------------------
(* Steps that put nothing new anywhere.                                    *)

LEMMA SameHistory == UNCHANGED earned => Earned' = Earned
BY DEF Earned

LEMMA KeepsStill ==
  ASSUME InductiveInvariant, UNCHANGED earned,
         pc' \in [Commands -> Places],
         disk' = [f \in Files |-> disk'[f]],
         seen' = [c \in Commands |-> seen'[c]],
         draft' = [c \in Commands |-> draft'[c]],
         \A c \in Commands : WasRead(seen'[c]) /\ ToSet(seen'[c]) \subseteq Held,
         \A f \in Files : disk'[f] \in Held \cup {Nothing, Torn},
         \A c \in Commands : draft'[c] \in Held \cup {Nothing, Torn}
  PROVE  InductiveInvariant'
<1> DEFINE N == {Nothing, Torn}
<1>1. Earned \subseteq Earned'
  BY SameHistory
<1>2. \A k \in N : WellMade(k) /\ Genuine(k, Earned')
  BY NothingIsFine
<1>3. /\ \A f \in Files : disk'[f] \in Held \cup N
      /\ \A c \in Commands : draft'[c] \in Held \cup N
  OBVIOUS
<1> HIDE DEF N
<1> QED
  BY <1>1, <1>2, <1>3, Keeps

LEMMA KeepsStart ==
  ASSUME InductiveInvariant, NEW c \in Commands, NEW t, Start(c, t)
  PROVE  InductiveInvariant'
<1>1. TypeInvariant /\ "read" \in Places /\ UNCHANGED <<disk, earned, seen, draft>>
  BY DEF InductiveInvariant, Places, Start, history
<1>2. pc' = [pc EXCEPT ![c] = "read"]
  BY DEF Start
<1> QED
  <2>1. /\ pc' \in [Commands -> Places]
        /\ seen' = [d \in Commands |-> seen'[d]] /\ draft' = [d \in Commands |-> draft'[d]]
        /\ \A d \in Commands : WasRead(seen'[d]) /\ ToSet(seen'[d]) \subseteq Held
        /\ \A d \in Commands : draft'[d] \in Held
    BY <1>1, <1>2, Moves
  <2>2. disk' = [g \in Files |-> disk'[g]] /\ \A g \in Files : disk'[g] \in Held
    BY <1>1, SameDisk
  <2> QED
    BY <1>1, <2>1, <2>2, KeepsStill

LEMMA KeepsRead ==
  ASSUME InductiveInvariant, NEW c \in Commands, Read(c)
  PROVE  InductiveInvariant'
<1>1. TypeInvariant /\ UNCHANGED <<disk, pc, draft, earned>>
  BY DEF InductiveInvariant, Read, history
<1>2. PICK k : k = Content(NextInput(c).file)
  OBVIOUS
<1>3. k \in Held /\ k \notin {Nothing, Torn}
  <2>1. k \notin {Nothing, Torn}
    BY <1>2 DEF Read, Accepts
  <2>2. PICK f : f = NextInput(c).file
    OBVIOUS
  <2>3. k = IF f \in Files THEN disk[f] ELSE Nothing
    BY <1>2, <2>2 DEF Content
  <2> QED
    BY <2>1, <2>3, InHeld
<1>4. seen' = [seen EXCEPT ![c] = Append(@, k)]
  BY <1>2 DEF Read
<1>5. /\ seen' = [d \in Commands |-> seen'[d]]
      /\ \A d \in Commands : seen'[d] = IF d = c THEN Append(seen[c], k) ELSE seen[d]
  BY <1>1, <1>4 DEF TypeInvariant
<1>6. \A d \in Commands : WasRead(seen'[d]) /\ ToSet(seen'[d]) \subseteq Held
  <2>1. WasRead(Append(seen[c], k)) /\ ToSet(Append(seen[c], k)) = ToSet(seen[c]) \cup {k}
    BY <1>1, <1>3, AppendWasRead DEF TypeInvariant
  <2>2. PICK s : s = Append(seen[c], k)
    OBVIOUS
  <2>3. WasRead(s) /\ ToSet(s) \subseteq Held
    BY <2>1, <2>2, <1>3, InHeld
  <2>4. \A d \in Commands : seen'[d] = IF d = c THEN s ELSE seen[d]
    BY <1>5, <2>2
  <2>5. \A d \in Commands : WasRead(seen[d]) /\ ToSet(seen[d]) \subseteq Held
    BY <1>1, InHeld DEF TypeInvariant
  <2> QED
    BY <2>3, <2>4, <2>5
<1>7. pc' \in [Commands -> Places] /\ draft' = [d \in Commands |-> draft'[d]]
  BY <1>1 DEF TypeInvariant
<1>8. \A d \in Commands : draft'[d] \in Held
  BY <1>1, InHeld
<1> QED
  <2>1. disk' = [g \in Files |-> disk'[g]] /\ \A g \in Files : disk'[g] \in Held
    BY <1>1, SameDisk
  <2> QED
    BY <1>1, <1>5, <1>6, <1>7, <1>8, <2>1, KeepsStill

\* Refusing, and checking gates, which writes nothing.
LEMMA KeepsEnding ==
  ASSUME InductiveInvariant, NEW c \in Commands, End(c), UNCHANGED <<disk, earned>>
  PROVE  InductiveInvariant'
<1>1. TypeInvariant
  BY DEF InductiveInvariant
<1> QED
  <2>1. /\ pc' \in [Commands -> Places]
        /\ seen' = [d \in Commands |-> seen'[d]] /\ draft' = [d \in Commands |-> draft'[d]]
        /\ \A d \in Commands : WasRead(seen'[d]) /\ ToSet(seen'[d]) \subseteq Held
        /\ \A d \in Commands : draft'[d] \in Held \cup {Nothing, Torn}
    BY <1>1, Ends
  <2>2. /\ disk' = [g \in Files |-> disk'[g]]
        /\ \A g \in Files : disk'[g] \in Held \cup {Nothing, Torn}
    BY <1>1, SameDisk
  <2> QED
    BY <1>1, <2>1, <2>2, KeepsStill

-----------------------------------------------------------------------------
(* Steps that write.                                                       *)

LEMMA KeepsOpenOut ==
  ASSUME InductiveInvariant, NEW c \in Commands, OpenOut(c)
  PROVE  InductiveInvariant'
<1>1. TypeInvariant /\ "fill" \in Places /\ UNCHANGED <<earned, seen, draft>>
  BY DEF InductiveInvariant, Places, OpenOut, history
<1>2. pc' = [pc EXCEPT ![c] = "fill"] /\ disk' = [disk EXCEPT ![task[c].out] = Torn]
  BY DEF OpenOut
<1> QED
  <2>1. /\ pc' \in [Commands -> Places]
        /\ seen' = [d \in Commands |-> seen'[d]] /\ draft' = [d \in Commands |-> draft'[d]]
        /\ \A d \in Commands : WasRead(seen'[d]) /\ ToSet(seen'[d]) \subseteq Held
        /\ \A d \in Commands : draft'[d] \in Held \cup {Nothing, Torn}
    BY <1>1, <1>2, Moves
  <2>2. /\ disk' = [g \in Files |-> disk'[g]]
        /\ \A g \in Files : disk'[g] \in Held \cup {Nothing, Torn}
    BY <1>1, <1>2, Replaced
  <2> QED
    BY <1>1, <2>1, <2>2, KeepsStill

LEMMA KeepsFill ==
  ASSUME InductiveInvariant, NEW c \in Commands, Fill(c)
  PROVE  InductiveInvariant'
<1>1. TypeInvariant /\ End(c) /\ UNCHANGED earned
  BY DEF InductiveInvariant, Fill, history
<1>2. PICK left \in {draft[c], Torn} : disk' = [disk EXCEPT ![task[c].out] = left]
  BY DEF Fill
<1>3. \A f \in Files : disk'[f] \in Held \cup {Nothing, Torn}
  BY <1>1, <1>2, Replaced, InHeld
<1> QED
  <2>1. /\ pc' \in [Commands -> Places]
        /\ seen' = [d \in Commands |-> seen'[d]] /\ draft' = [d \in Commands |-> draft'[d]]
        /\ \A d \in Commands : WasRead(seen'[d]) /\ ToSet(seen'[d]) \subseteq Held
        /\ \A d \in Commands : draft'[d] \in Held \cup {Nothing, Torn}
    BY <1>1, Ends
  <2>2. /\ disk' = [g \in Files |-> disk'[g]]
        /\ \A g \in Files : disk'[g] \in Held \cup {Nothing, Torn}
    BY <1>1, <1>2, <1>3, Replaced
  <2> QED
    BY <1>1, <2>1, <2>2, KeepsStill

LEMMA KeepsTemporary ==
  ASSUME InductiveInvariant, NEW c \in Commands, NEW here, NEW name, NEW next \in Places,
         WriteTemporary(c, here, name, next)
  PROVE  InductiveInvariant'
<1>1. TypeInvariant /\ UNCHANGED <<earned, seen, draft>>
  BY DEF InductiveInvariant, WriteTemporary, history
<1>2. pc' = [pc EXCEPT ![c] = next]
  BY DEF WriteTemporary
<1>3. PICK k, f : k = draft[c] /\ f = Temp[name]
  OBVIOUS
<1>4. disk' = [disk EXCEPT ![f] = k] /\ k \in Held
  BY <1>3, InHeld DEF WriteTemporary
<1>5. /\ pc' \in [Commands -> Places]
      /\ seen' = [d \in Commands |-> seen'[d]] /\ draft' = [d \in Commands |-> draft'[d]]
      /\ \A d \in Commands : WasRead(seen'[d]) /\ ToSet(seen'[d]) \subseteq Held
      /\ \A d \in Commands : draft'[d] \in Held \cup {Nothing, Torn}
  BY <1>1, <1>2, Moves
<1>6. /\ disk' = [g \in Files |-> disk'[g]]
      /\ \A g \in Files : disk'[g] \in Held \cup {Nothing, Torn}
  BY <1>1, <1>4, Replaced
<1> QED
  BY <1>1, <1>5, <1>6, KeepsStill

LEMMA KeepsTemporaries ==
  ASSUME InductiveInvariant, NEW c \in Commands, Temporaries(c)
  PROVE  InductiveInvariant'
<1>1. "temp_second" \in Places /\ "place_first" \in Places
  BY DEF Places, Building
<1>2. CASE WriteTemporary(c, "temp_first", Contents[1], "temp_second")
  BY <1>1, <1>2, KeepsTemporary
<1>3. CASE WriteTemporary(c, "temp_second", Contents[2], "place_first")
  BY <1>1, <1>3, KeepsTemporary
<1> QED
  BY <1>2, <1>3 DEF Temporaries

\* Two files change at once: one is what another was, the other is gone.
LEMMA Moved ==
  ASSUME TypeInvariant, NEW f, NEW g, NEW k \in Held \cup {Nothing, Torn},
         NEW l \in Held \cup {Nothing, Torn},
         disk' = [disk EXCEPT ![f] = k, ![g] = l]
  PROVE  /\ disk' = [h \in Files |-> disk'[h]]
         /\ \A h \in Files : disk'[h] \in Held \cup {Nothing, Torn}
<1>1. disk = [h \in Files |-> disk[h]]
  BY DEF TypeInvariant
<1>2. /\ disk' = [h \in Files |-> disk'[h]]
      /\ \A h \in Files : disk'[h] \in {disk[h], k, l}
  BY <1>1
<1> QED
  BY <1>2, InHeld

LEMMA Temps == \A n \in {"suite.json", "suite.html"} : Temp[n] \in Files
BY PublicationAssumption DEF Temp

LEMMA KeepsPlace ==
  ASSUME InductiveInvariant, NEW c \in Commands, PlaceFirst(c) \/ PlaceSecond(c)
  PROVE  InductiveInvariant'
<1>1. TypeInvariant /\ UNCHANGED earned
  BY DEF InductiveInvariant, PlaceFirst, PlaceSecond, history
<1>2. PICK name : name \in {"suite.json", "suite.html"} /\ \E here : Placed(c, here, name)
  BY DEF PlaceFirst, PlaceSecond, Contents
<1>3. PICK k : k = disk[Temp[name]]
  OBVIOUS
<1>4. disk' = [disk EXCEPT ![name] = k, ![Temp[name]] = Nothing] /\ k \in Held
  BY <1>2, <1>3, Temps, InHeld DEF Placed
<1>5. /\ disk' = [h \in Files |-> disk'[h]]
      /\ \A h \in Files : disk'[h] \in Held \cup {Nothing, Torn}
  BY <1>1, <1>4, Moved
<1>6. CASE PlaceFirst(c)
  <2>1. /\ UNCHANGED <<seen, draft>> /\ "place_second" \in Places
        /\ pc' = [pc EXCEPT ![c] = "place_second"]
    BY <1>6 DEF PlaceFirst, Places, Building
  <2> QED
    <3>1. /\ pc' \in [Commands -> Places]
          /\ seen' = [d \in Commands |-> seen'[d]] /\ draft' = [d \in Commands |-> draft'[d]]
          /\ \A d \in Commands : WasRead(seen'[d]) /\ ToSet(seen'[d]) \subseteq Held
          /\ \A d \in Commands : draft'[d] \in Held \cup {Nothing, Torn}
      BY <1>1, <2>1, Moves
    <3>2. /\ disk' = [g \in Files |-> disk'[g]]
          /\ \A g \in Files : disk'[g] \in Held \cup {Nothing, Torn}
      BY <1>5
    <3> QED
      BY <1>1, <3>1, <3>2, KeepsStill
<1>7. CASE PlaceSecond(c)
  <2>1. End(c)
    BY <1>7 DEF PlaceSecond
  <2>2. /\ pc' \in [Commands -> Places]
        /\ seen' = [d \in Commands |-> seen'[d]] /\ draft' = [d \in Commands |-> draft'[d]]
        /\ \A d \in Commands : WasRead(seen'[d]) /\ ToSet(seen'[d]) \subseteq Held
        /\ \A d \in Commands : draft'[d] \in Held \cup {Nothing, Torn}
    BY <1>1, <2>1, Ends
  <2>3. /\ disk' = [g \in Files |-> disk'[g]]
        /\ \A g \in Files : disk'[g] \in Held \cup {Nothing, Torn}
    BY <1>5
  <2> QED
    BY <1>1, <2>2, <2>3, KeepsStill
<1> QED
  BY <1>6, <1>7

LEMMA KeepsFailing ==
  ASSUME InductiveInvariant, NEW c \in Commands, PlaceFails(c) \/ WriteFails(c)
  PROVE  InductiveInvariant'
<1>1. TypeInvariant /\ End(c) /\ UNCHANGED earned
  BY DEF InductiveInvariant, PlaceFails, WriteFails, history
<1>2. PICK f, g : f = Temp[Contents[1]] /\ g = Temp[Contents[2]]
  OBVIOUS
<1>4. \/ disk' = [disk EXCEPT ![f] = Nothing, ![g] = Nothing]
      \/ disk' = [disk EXCEPT ![f] = Torn]
      \/ disk' = [disk EXCEPT ![f] = Nothing, ![g] = Torn]
  BY <1>2 DEF PlaceFails, WriteFails
<1>3. /\ disk' = [h \in Files |-> disk'[h]]
      /\ \A h \in Files : disk'[h] \in Held \cup {Nothing, Torn}
  <2>1. CASE disk' = [disk EXCEPT ![f] = Nothing, ![g] = Nothing]
    BY <1>1, <2>1, Moved
  <2>2. CASE disk' = [disk EXCEPT ![f] = Torn]
    BY <1>1, <2>2, Replaced
  <2>3. CASE disk' = [disk EXCEPT ![f] = Nothing, ![g] = Torn]
    BY <1>1, <2>3, Moved
  <2> QED
    BY <1>4, <2>1, <2>2, <2>3
<1> QED
  <2>1. /\ pc' \in [Commands -> Places]
        /\ seen' = [d \in Commands |-> seen'[d]] /\ draft' = [d \in Commands |-> draft'[d]]
        /\ \A d \in Commands : WasRead(seen'[d]) /\ ToSet(seen'[d]) \subseteq Held
        /\ \A d \in Commands : draft'[d] \in Held \cup {Nothing, Torn}
    BY <1>1, Ends
  <2>2. /\ disk' = [k \in Files |-> disk'[k]]
        /\ \A k \in Files : disk'[k] \in Held \cup {Nothing, Torn}
    BY <1>3
  <2> QED
    BY <1>1, <2>1, <2>2, KeepsStill

-----------------------------------------------------------------------------
(* Steps that decide.                                                      *)

LEMMA KeepsDraft ==
  ASSUME InductiveInvariant, NEW c \in Commands, NEW place \in Places, NEW content,
         Writes(c, content, place), UNCHANGED disk, Earned \subseteq Earned',
         WellMade(content), Genuine(content, Earned')
  PROVE  InductiveInvariant'
<1> DEFINE N == {content}
<1>1. TypeInvariant
  BY DEF InductiveInvariant
<1>2. /\ pc' \in [Commands -> Places]
      /\ seen' = [d \in Commands |-> seen'[d]] /\ draft' = [d \in Commands |-> draft'[d]]
      /\ \A d \in Commands : WasRead(seen'[d]) /\ ToSet(seen'[d]) \subseteq Held
      /\ \A d \in Commands : draft'[d] \in Held \cup N
  BY <1>1, Drafts
<1>3. disk' = [f \in Files |-> disk'[f]] /\ \A f \in Files : disk'[f] \in Held \cup N
  BY <1>1, SameDisk
<1>4. \A k \in N : WellMade(k) /\ Genuine(k, Earned')
  OBVIOUS
<1> HIDE DEF N
<1> QED
  BY <1>2, <1>3, <1>4, Keeps

LEMMA OtherKinds ==
  ASSUME NEW k, k.kind \in {"compare", "page"}, NEW digests
  PROVE  WellMade(k) /\ Genuine(k, digests)
BY DEF WellMade, Genuine, IsA

LEMMA JudgedIsFine ==
  ASSUME NEW rubric, NEW work, NEW answers, NEW families, NEW digests
  PROVE  /\ WellMade(Judged(rubric, work, answers, families))
         /\ Genuine(Judged(rubric, work, answers, families), digests)
<1>1. PICK items, summary :
        Judged(rubric, work, answers, families) =
          [kind |-> "judgment",
           body |-> [mode |-> rubric.mode, rubric |-> rubric.id, families |-> families,
                     dumped |-> TRUE, items |-> items, summary |-> summary],
           gating |-> FALSE, claimed |-> NoValue]
  BY DEF Judged
<1>2. \A k : k = [kind |-> "judgment",
           body |-> [mode |-> rubric.mode, rubric |-> rubric.id, families |-> families,
                     dumped |-> TRUE, items |-> items, summary |-> summary],
           gating |-> FALSE, claimed |-> NoValue]
        => WellMade(k) /\ Genuine(k, digests)
  <2> TAKE k
  <2> HAVE k = [kind |-> "judgment",
           body |-> [mode |-> rubric.mode, rubric |-> rubric.id, families |-> families,
                     dumped |-> TRUE, items |-> items, summary |-> summary],
           gating |-> FALSE, claimed |-> NoValue]
  <2>1. k.kind = "judgment" /\ k.gating = FALSE /\ k.body.dumped = TRUE
    OBVIOUS
  <2>2. k = [n \in {"kind", "body", "gating", "claimed"} |-> k[n]]
    OBVIOUS
  <2>3. k.body = [n \in {"mode", "rubric", "families", "dumped", "items", "summary"} |-> k.body[n]]
    OBVIOUS
  <2> QED
    BY <2>1, <2>2, <2>3 DEF WellMade, Genuine, IsA, Fields
<1> QED
  BY <1>1, <1>2

LEMMA KeepsRunJudgment ==
  ASSUME InductiveInvariant, NEW c \in Commands, RunJudgment(c)
  PROVE  InductiveInvariant'
<1>1. PICK k : k = Judged(seen[c][1], seen[c][2], seen[c][3], task[c].families)
  OBVIOUS
<1>2. Writes(c, k, "write") /\ UNCHANGED <<disk, earned>> /\ "write" \in Places
  BY <1>1 DEF RunJudgment, history, Places
<1>3. PICK digests : digests = Earned'
  OBVIOUS
<1>4. WellMade(k) /\ Genuine(k, digests)
  BY <1>1, JudgedIsFine
<1> QED
  BY <1>2, <1>3, <1>4, SameHistory, KeepsDraft

LEMMA CalibrationIsFine ==
  ASSUME NEW judgment, NEW holdout, NEW dev, NEW rubric
  PROVE  LET k == CalibrationOf(judgment, holdout, dev, rubric)
         IN  WellMade(k) /\ k.kind = "calibration" /\ k.digest = k.body
<1>1. PICK content : CalibrationOf(judgment, holdout, dev, rubric) =
                       [kind |-> "calibration", body |-> content, digest |-> content]
  BY DEF CalibrationOf
<1>2. \A k : k = [kind |-> "calibration", body |-> content, digest |-> content]
        => WellMade(k) /\ k.kind = "calibration" /\ k.digest = k.body
  BY DEF WellMade, IsA, Fields
<1> QED
  BY <1>1, <1>2

LEMMA KeepsValidateCalibration ==
  ASSUME InductiveInvariant, NEW c \in Commands, ValidateCalibration(c)
  PROVE  InductiveInvariant'
<1>1. PICK k : k = CalibrationOf(seen[c][1], seen[c][2], Dev(c), seen[c][3])
  OBVIOUS
<1>2. PICK e : e = [calibration |-> k.body, judgment |-> seen[c][1], holdout |-> seen[c][2],
                    rubric |-> seen[c][3]]
  OBVIOUS
<1>3. /\ Writes(c, k, "write") /\ UNCHANGED disk /\ "write" \in Places
      /\ earned' = earned \cup {x \in {e} : k.body.gating}
  BY <1>1, <1>2 DEF ValidateCalibration, Places
<1>4. WellMade(k) /\ k.kind = "calibration" /\ k.digest = k.body
  BY <1>1, CalibrationIsFine
<1>5. Earned \subseteq Earned'
  BY <1>3 DEF Earned
<1>6. k.body.gating => k.body \in Earned'
  BY <1>2, <1>3 DEF Earned
<1>7. PICK digests : digests = Earned'
  OBVIOUS
<1>8. Genuine(k, digests)
  BY <1>4, <1>6, <1>7 DEF Genuine
<1> QED
  BY <1>3, <1>4, <1>5, <1>7, <1>8, KeepsDraft

LEMMA AttachedIsFine ==
  ASSUME NEW j, NEW k, WellMade(j), IsA(j, "judgment"), NEW digests
  PROVE  WellMade(Attached(j, k)) /\ Genuine(Attached(j, k), digests)
<1>1. PICK body : body = [j.body EXCEPT !.dumped = TRUE]
  OBVIOUS
<1>2. /\ j = [n \in {"kind", "body", "gating", "claimed"} |-> j[n]] /\ j.kind = "judgment"
      /\ j.body = [n \in {"mode", "rubric", "families", "dumped", "items", "summary"} |-> j.body[n]]
  BY DEF WellMade, Fields, IsA
<1>3. /\ body = [n \in {"mode", "rubric", "families", "dumped", "items", "summary"} |-> body[n]]
      /\ body.dumped = TRUE
  BY <1>1, <1>2
<1>4. PICK a : a = Attached(j, k)
  OBVIOUS
<1>5. /\ a = [n \in {"kind", "body", "gating", "claimed"} |-> a[n]] /\ a.kind = "judgment"
      /\ a.body = body /\ a.gating = TRUE /\ a.claimed = k.digest
  BY <1>1, <1>2, <1>4 DEF Attached
<1>6. WellMade(a)
  BY <1>3, <1>5 DEF WellMade, Fields, IsA
<1>7. Genuine(a, digests)
  BY <1>5 DEF Genuine, IsA
<1> QED
  BY <1>4, <1>6, <1>7

\* attach_calibration has read a judgment and a calibration.
LEMMA AttachHasRead ==
  ASSUME TypeInvariant, NEW c \in Commands, HasRead(c, "attach")
  PROVE  {seen[c][1], seen[c][2]} \subseteq Held \ {Nothing, Torn}
<1>1. PICK s, t : s = seen[c] /\ t = task[c]
  OBVIOUS
<1>2. Len(s) = Len(Wanted(t, s)) /\ t.kind = "attach" /\ WasRead(s)
  BY <1>1 DEF HasRead, TypeInvariant
<1>3. DeclaredInputs(t, s[1]) = <<>>
  BY <1>2 DEF DeclaredInputs
<1>4. PICK x, y : FixedInputs(t) = <<x, y>>
  BY <1>2 DEF FixedInputs
<1>5. Wanted(t, s) = <<x, y>> \o <<>>
  BY <1>3, <1>4 DEF Wanted
<1>6. Len(s) = 2
  BY <1>2, <1>5
<1>7. 1 \in DOMAIN s /\ 2 \in DOMAIN s
  BY <1>2, <1>6 DEF WasRead
<1>8. s[1] \in ToSet(s) /\ s[2] \in ToSet(s)
  BY <1>7 DEF ToSet
<1> QED
  BY <1>1, <1>2, <1>8, InHeld DEF WasRead

LEMMA KeepsAttachCalibration ==
  ASSUME InductiveInvariant, NEW c \in Commands, AttachCalibration(c)
  PROVE  InductiveInvariant'
<1>1. PICK j, k : j = seen[c][1] /\ k = seen[c][2]
  OBVIOUS
<1>2. PICK a : a = Attached(j, k)
  OBVIOUS
<1>3. /\ Writes(c, a, "write") /\ UNCHANGED <<disk, earned>> /\ "write" \in Places
      /\ CanAttach(j, k)
  BY <1>1, <1>2 DEF AttachCalibration, Places
<1>4. j \in Held /\ IsA(j, "judgment")
  BY <1>1, <1>3, AttachHasRead DEF IsA, AttachCalibration, InductiveInvariant, CanAttach, JudgmentLoads
<1>5. PICK digests : digests = Earned'
  OBVIOUS
<1>6. WellMade(a) /\ Genuine(a, digests)
  BY <1>2, <1>4, AttachedIsFine DEF InductiveInvariant, TypeInvariant
<1> QED
  BY <1>3, <1>5, <1>6, SameHistory, KeepsDraft

LEMMA KeepsCompareRuns ==
  ASSUME InductiveInvariant, NEW c \in Commands, CompareRuns(c)
  PROVE  InductiveInvariant'
<1>1. PICK old, new : Writes(c, ComparisonOf(seen[c][1], old, seen[c][2], new), "write")
  BY DEF CompareRuns
<1>2. PICK k : k = ComparisonOf(seen[c][1], old, seen[c][2], new)
  OBVIOUS
<1>3. PICK one, other : k = ComparisonOf(one, old, other, new)
  BY <1>2
<1>4. k.kind = "compare"
  BY <1>3 DEF ComparisonOf
<1>5. UNCHANGED <<disk, earned>> /\ "write" \in Places
  BY DEF CompareRuns, Places
<1>6. PICK digests : digests = Earned'
  OBVIOUS
<1>7. WellMade(k) /\ Genuine(k, digests)
  BY <1>4, OtherKinds
<1> QED
  BY <1>1, <1>2, <1>5, <1>6, <1>7, SameHistory, KeepsDraft

LEMMA KeepsBuildSuite ==
  ASSUME InductiveInvariant, NEW c \in Commands, BuildSuite(c)
  PROVE  InductiveInvariant'
<1>1. PICK page : Writes(c, [kind |-> "page", serial |-> builds, page |-> page], "temp_first")
  BY DEF BuildSuite
<1>2. PICK k : k = [kind |-> "page", serial |-> builds, page |-> page]
  OBVIOUS
<1>3. UNCHANGED <<disk, earned>> /\ "temp_first" \in Places
  BY DEF BuildSuite, Places, Building
<1>4. PICK digests : digests = Earned'
  OBVIOUS
<1>5. k.kind = "page"
  BY <1>2
<1>6. WellMade(k) /\ Genuine(k, digests)
  BY <1>5, OtherKinds
<1> QED
  BY <1>1, <1>2, <1>3, <1>4, <1>6, SameHistory, KeepsDraft

-----------------------------------------------------------------------------
(* Operators.                                                              *)

\* Something fine put in a place.
LEMMA KeepsContent ==
  ASSUME InductiveInvariant, NEW f \in Files, NEW k, disk' = [disk EXCEPT ![f] = k],
         UNCHANGED <<command, earned>>, WellMade(k), Genuine(k, Earned)
  PROVE  InductiveInvariant'
<1> DEFINE N == {k}
<1>1. TypeInvariant /\ Earned' = Earned /\ UNCHANGED <<pc, seen, draft>>
  BY SameHistory DEF InductiveInvariant, command
<1>2. /\ pc' \in [Commands -> Places]
      /\ seen' = [d \in Commands |-> seen'[d]] /\ draft' = [d \in Commands |-> draft'[d]]
      /\ \A d \in Commands : WasRead(seen'[d]) /\ ToSet(seen'[d]) \subseteq Held
      /\ \A d \in Commands : draft'[d] \in Held \cup N
  BY <1>1, InHeld DEF TypeInvariant
<1>3. disk' = [g \in Files |-> disk'[g]] /\ \A g \in Files : disk'[g] \in Held \cup N
  BY <1>1, Replaced
<1>4. PICK digests : digests = Earned
  OBVIOUS
<1>5. \A x \in N : WellMade(x) /\ Genuine(x, digests)
  BY <1>4
<1> HIDE DEF N
<1> QED
  BY <1>1, <1>2, <1>3, <1>4, <1>5, Keeps

LEMMA KeepsReplace ==
  ASSUME InductiveInvariant, NEW f \in Files, NEW k \in Versions[f], Replace(f, k)
  PROVE  InductiveInvariant'
<1>1. WellMade(k) /\ Genuine(k, Earned)
  BY PublicationAssumption DEF Unremarkable, Genuine
<1>2. disk' = [disk EXCEPT ![f] = k] /\ UNCHANGED <<command, earned>>
  BY DEF Replace, history
<1> QED
  BY <1>1, <1>2, KeepsContent

\* An artifact edited by hand is still one, and keeps its digest.
LEMMA EditedCalibration ==
  ASSUME NEW k, IsA(k, "calibration"), WellMade(k), NEW digests, Genuine(k, digests)
  PROVE  LET e == [k EXCEPT !.body.gating = TRUE] IN WellMade(e) /\ Genuine(e, digests)
<1>1. PICK e : e = [k EXCEPT !.body.gating = TRUE]
  OBVIOUS
<1>2. k = [n \in {"kind", "body", "digest"} |-> k[n]] /\ k.kind = "calibration"
  BY DEF WellMade, Fields, IsA
<1>3. /\ e = [n \in {"kind", "body", "digest"} |-> e[n]] /\ e.kind = "calibration"
      /\ e.digest = k.digest
  BY <1>1, <1>2
<1>4. WellMade(e) /\ Genuine(e, digests)
  BY <1>3 DEF WellMade, Fields, IsA, Genuine
<1> QED
  BY <1>1, <1>4

LEMMA EditedJudgment ==
  ASSUME NEW k, IsA(k, "judgment"), WellMade(k), NEW digests, NEW claim
  PROVE  /\ LET e == [k EXCEPT !.body.dumped = FALSE] IN WellMade(e) /\ Genuine(e, digests)
         /\ LET e == [k EXCEPT !.gating = TRUE, !.claimed = claim]
            IN  WellMade(e) /\ Genuine(e, digests)
<1>1. /\ k = [n \in {"kind", "body", "gating", "claimed"} |-> k[n]] /\ k.kind = "judgment"
      /\ k.body = [n \in {"mode", "rubric", "families", "dumped", "items", "summary"} |-> k.body[n]]
      /\ k.gating \in BOOLEAN /\ k.body.dumped \in BOOLEAN
  BY DEF WellMade, Fields, IsA
<1>2. PICK body : body = [k.body EXCEPT !.dumped = FALSE]
  OBVIOUS
<1>3. /\ body = [n \in {"mode", "rubric", "families", "dumped", "items", "summary"} |-> body[n]]
      /\ body.dumped = FALSE
  BY <1>1, <1>2
<1>4. PICK d : d = [k EXCEPT !.body = body]
  OBVIOUS
<1>5. d = [k EXCEPT !.body.dumped = FALSE]
  BY <1>2, <1>4
<1>6. /\ d = [n \in {"kind", "body", "gating", "claimed"} |-> d[n]] /\ d.kind = "judgment"
      /\ d.body = body /\ d.gating = k.gating
  BY <1>1, <1>4
<1>7. WellMade(d) /\ Genuine(d, digests)
  BY <1>1, <1>3, <1>6 DEF WellMade, Fields, IsA, Genuine
<1>8. PICK e : e = [k EXCEPT !.gating = TRUE, !.claimed = claim]
  OBVIOUS
<1>9. /\ e = [n \in {"kind", "body", "gating", "claimed"} |-> e[n]] /\ e.kind = "judgment"
      /\ e.body = k.body /\ e.gating = TRUE
  BY <1>1, <1>8
<1>10. WellMade(e) /\ Genuine(e, digests)
  BY <1>1, <1>9 DEF WellMade, Fields, IsA, Genuine
<1> QED
  BY <1>5, <1>7, <1>8, <1>10

LEMMA KeepsEdit ==
  ASSUME InductiveInvariant, NEW f \in Files, Edit(f)
  PROVE  InductiveInvariant'
<1>1. PICK k : k = disk[f]
  OBVIOUS
<1>2. PICK e \in Edited(k) : disk' = [disk EXCEPT ![f] = e]
  BY <1>1 DEF Edit
<1>3. k \in Held /\ k \notin {Nothing, Torn} /\ UNCHANGED <<command, earned>>
  BY <1>1, InHeld DEF Edit, history
<1>4. PICK digests : digests = Earned
  OBVIOUS
<1>5. WellMade(k) /\ Genuine(k, digests)
  BY <1>3, <1>4 DEF InductiveInvariant, TypeInvariant, DigestsAreGenuine, Genuine
<1>6. WellMade(e) /\ Genuine(e, digests)
  <2>1. CASE k.kind = "calibration"
    <3>1. e = [k EXCEPT !.body.gating = TRUE] /\ IsA(k, "calibration")
      BY <1>2, <1>3, <2>1 DEF Edited, IsA
    <3> QED
      BY <1>5, <3>1, EditedCalibration
  <2>2. CASE k.kind = "judgment"
    <3>1. /\ IsA(k, "judgment")
          /\ \/ e = [k EXCEPT !.body.dumped = FALSE]
             \/ \E claim : e = [k EXCEPT !.gating = TRUE, !.claimed = claim]
      BY <1>2, <1>3, <2>2 DEF Edited, IsA
    <3>2. CASE e = [k EXCEPT !.body.dumped = FALSE]
      BY <1>5, <3>1, <3>2, EditedJudgment
    <3>3. CASE \E claim : e = [k EXCEPT !.gating = TRUE, !.claimed = claim]
      <4>1. PICK claim : e = [k EXCEPT !.gating = TRUE, !.claimed = claim]
        BY <3>3
      <4>2. PICK d : d = [k EXCEPT !.gating = TRUE, !.claimed = claim]
        OBVIOUS
      <4>3. WellMade(d) /\ Genuine(d, digests)
        BY <1>5, <3>1, <4>2, EditedJudgment
      <4> QED
        BY <4>1, <4>2, <4>3
    <3> QED
      BY <3>1, <3>2, <3>3
  <2>3. CASE k.kind \notin {"calibration", "judgment"}
    BY <1>2, <2>3 DEF Edited
  <2> QED
    BY <2>1, <2>2, <2>3
<1> QED
  BY <1>2, <1>3, <1>4, <1>6, KeepsContent

-----------------------------------------------------------------------------
(* The inductive invariant.                                                *)

LEMMA InitInvariant == Init => InductiveInvariant
<1> SUFFICES ASSUME Init PROVE InductiveInvariant
  OBVIOUS
<1>1. disk = [f \in Files |-> disk[f]] /\ \A f \in Files : Unremarkable(disk[f])
  BY PublicationAssumption DEF Init
<1>2. /\ pc \in [Commands -> Places] /\ seen = [c \in Commands |-> <<>>]
      /\ draft = [c \in Commands |-> Nothing]
  BY DEF Init, Places
<1>3. /\ seen = [c \in Commands |-> seen[c]] /\ draft = [c \in Commands |-> draft[c]]
      /\ \A c \in Commands : WasRead(seen[c]) /\ ToSet(seen[c]) = {}
  BY <1>2, EmptyWasRead
<1>4. \A k \in Held : (\E f \in Files : k = disk[f]) \/ k = Nothing
  BY <1>2, <1>3 DEF Held
<1>5. \A k \in Held : WellMade(k) /\ (IsA(k, "calibration") => ~k.digest.gating)
  BY <1>1, <1>4, NothingIsFine DEF Unremarkable, IsA
<1> QED
  BY <1>1, <1>2, <1>3, <1>5 DEF InductiveInvariant, TypeInvariant, DigestsAreGenuine

LEMMA NextKeeps == InductiveInvariant /\ [Next]_vars => InductiveInvariant'
<1> SUFFICES ASSUME InductiveInvariant, [Next]_vars PROVE InductiveInvariant'
  OBVIOUS
<1>1. ASSUME NEW c \in Commands, NEW t \in TasksOf[c], Start(c, t) PROVE InductiveInvariant'
  BY <1>1, KeepsStart
<1>2. ASSUME NEW c \in Commands, Step(c) PROVE InductiveInvariant'
  <2>1. CASE Read(c)
    BY <2>1, KeepsRead
  <2>2. CASE RefuseInput(c)
    BY <2>2, KeepsEnding DEF RefuseInput, history
  <2>3. CASE RefuseAll(c)
    BY <2>3, KeepsEnding DEF RefuseAll, history
  <2>4. CASE RunJudgment(c)
    BY <2>4, KeepsRunJudgment
  <2>5. CASE ValidateCalibration(c)
    BY <2>5, KeepsValidateCalibration
  <2>6. CASE AttachCalibration(c)
    BY <2>6, KeepsAttachCalibration
  <2>7. CASE CompareRuns(c)
    BY <2>7, KeepsCompareRuns
  <2>8. CASE BuildSuite(c)
    BY <2>8, KeepsBuildSuite
  <2>9. CASE CheckGates(c)
    BY <2>9, KeepsEnding DEF CheckGates
  <2>10. CASE OpenOut(c)
    BY <2>10, KeepsOpenOut
  <2>11. CASE Fill(c)
    BY <2>11, KeepsFill
  <2>12. CASE Temporaries(c)
    BY <2>12, KeepsTemporaries
  <2>13. CASE PlaceFirst(c) \/ PlaceSecond(c)
    BY <2>13, KeepsPlace
  <2>14. CASE PlaceFails(c)
    BY <2>14, KeepsFailing
  <2> QED
    BY <1>2, <2>1, <2>2, <2>3, <2>4, <2>5, <2>6, <2>7, <2>8, <2>9, <2>10, <2>11, <2>12,
       <2>13, <2>14 DEF Step
<1>3. ASSUME NEW c \in Commands, WriteFails(c) PROVE InductiveInvariant'
  BY <1>3, KeepsFailing
<1>4. ASSUME NEW c \in Commands, Dies(c) PROVE InductiveInvariant'
  BY <1>4, KeepsEnding DEF Dies, history
<1>5. ASSUME NEW f \in Files, NEW k \in Versions[f], Replace(f, k) PROVE InductiveInvariant'
  BY <1>5, KeepsReplace
<1>6. ASSUME NEW f \in Files, Edit(f) PROVE InductiveInvariant'
  BY <1>6, KeepsEdit
<1>7. CASE UNCHANGED vars
  <2>1. UNCHANGED <<disk, pc, seen, draft, earned>>
    BY <1>7 DEF vars, command, history
  <2> QED
    BY <2>1 DEF InductiveInvariant, TypeInvariant, DigestsAreGenuine, Held, Earned
<1> QED
  BY <1>1, <1>2, <1>3, <1>4, <1>5, <1>6, <1>7 DEF Next

\* Wherever a calibration is found, on disk or in the hands of a command, what
\* its digest vouches for was computed by validate_calibration if it lets gate.
THEOREM CalibrationsAreGenuine == Spec => []InductiveInvariant
<1> QED
  BY InitInvariant, NextKeeps, PTL DEF Spec

-----------------------------------------------------------------------------
(* What lights a gate.                                                     *)

\* What was read and is of a kind was held.
LEMMA SectionHeld ==
  ASSUME TypeInvariant, NEW c \in Commands, NEW i \in DOMAIN seen[c]
  PROVE  seen[c][i] \in Held /\ seen[c][i] \notin {Nothing, Torn}
<1>1. seen[c][i] \in ToSet(seen[c])
  BY DEF ToSet
<1> QED
  BY <1>1, InHeld DEF TypeInvariant, WasRead

LEMMA PassingIsEarned ==
  ASSUME NEW suite, NEW digests, SuiteLoads(suite),
         \A i \in DOMAIN suite.calibrations :
            suite.calibrations[i].digest.gating => suite.calibrations[i].digest \in digests
  PROVE  Passing(suite) \subseteq digests
<1>1. \A i \in DOMAIN suite.calibrations :
        suite.calibrations[i].digest = suite.calibrations[i].body
  BY DEF SuiteLoads, CalibrationLoads
<1> QED
  BY <1>1 DEF Passing

LEMMA JudgesAreBound ==
  ASSUME NEW suite, NEW digests, Passing(suite) \subseteq digests, NEW page,
         page.judges = JudgeSummaries(suite)
  PROVE  \A i \in DOMAIN page.judges : page.judges[i].gating =>
            \E e \in digests : e = page.judges[i].of.claimed
                               /\ e.judgment = Identity(page.judges[i].of)
BY DEF JudgeSummaries, IsBound

\* The calibrations a command has read are genuine.
LEMMA ReadIsGenuine ==
  ASSUME InductiveInvariant, NEW c \in Commands, NEW i \in DOMAIN seen[c],
         seen[c][i].kind = "calibration", seen[c][i].digest.gating
  PROVE  seen[c][i].digest \in Earned
<1>1. PICK k : k = seen[c][i]
  OBVIOUS
<1>2. k \in Held /\ IsA(k, "calibration") /\ k.digest.gating
  BY <1>1, SectionHeld DEF InductiveInvariant, IsA
<1>3. k.digest \in Earned
  BY <1>2 DEF InductiveInvariant, DigestsAreGenuine
<1> QED
  BY <1>1, <1>3

PagesAreEarned(all, digests) ==
    \A page \in all : \A i \in DOMAIN page.judges : page.judges[i].gating =>
        \E e \in digests : e = page.judges[i].of.claimed /\ e.judgment = Identity(page.judges[i].of)
VerdictsAreEarned(all, digests) ==
    \A v \in all : \A i \in DOMAIN v.gates :
        v.gates[i].kind = "calibrated_judge" /\ v.gates[i].name \notin v.result.failed
        => v.loaded["calibration"].body \in digests

LEMMA MoreEarned ==
  ASSUME NEW all, NEW digests, NEW more, digests \subseteq more
  PROVE  /\ PagesAreEarned(all, digests) => PagesAreEarned(all, more)
         /\ VerdictsAreEarned(all, digests) => VerdictsAreEarned(all, more)
BY DEF PagesAreEarned, VerdictsAreEarned

LEMMA BuildEarns ==
  ASSUME InductiveInvariant, NEW c \in Commands, BuildSuite(c), PagesAreEarned(pages, Earned)
  PROVE  PagesAreEarned(pages', Earned)
<1>1. PICK s : s = seen[c]
  OBVIOUS
<1>2. PICK suite : suite = LoadedSuite(s)
  OBVIOUS
<1>3. PICK page : page = AssembleSuite(suite)
  OBVIOUS
<1>4. SuiteLoads(suite) /\ pages' = pages \cup {page}
  BY <1>1, <1>2, <1>3 DEF BuildSuite
<1>5. PICK digests : digests = Earned
  OBVIOUS
<1>6. \A i \in DOMAIN s : s[i].kind = "calibration" /\ s[i].digest.gating => s[i].digest \in digests
  BY <1>1, <1>5, ReadIsGenuine
<1>7. 2..Len(s) \subseteq DOMAIN s
  BY <1>1 DEF InductiveInvariant, TypeInvariant, WasRead
<1>8. suite.calibrations = [i \in {n \in 2..Len(s) : s[n].kind = "calibration"} |-> s[i]]
  BY <1>2 DEF LoadedSuite
<1>9. \A i \in DOMAIN suite.calibrations :
        suite.calibrations[i].digest.gating => suite.calibrations[i].digest \in digests
  BY <1>6, <1>7, <1>8
<1>10. page.judges = JudgeSummaries(suite)
  BY <1>3 DEF AssembleSuite
<1>11. PagesAreEarned({page}, digests)
  <2>1. Passing(suite) \subseteq digests
    BY <1>4, <1>9, PassingIsEarned
  <2>2. \A i \in DOMAIN page.judges : page.judges[i].gating =>
            \E e \in digests : e = page.judges[i].of.claimed
                               /\ e.judgment = Identity(page.judges[i].of)
    BY <1>10, <2>1, JudgesAreBound
  <2> QED
    BY <2>2 DEF PagesAreEarned
<1> QED
  BY <1>4, <1>5, <1>11 DEF PagesAreEarned

LEMMA CheckEarns ==
  ASSUME InductiveInvariant, NEW c \in Commands, CheckGates(c),
         VerdictsAreEarned(verdicts, Earned)
  PROVE  VerdictsAreEarned(verdicts', Earned)
<1>1. PICK s : s = seen[c]
  OBVIOUS
<1>2. PICK loaded : loaded = LoadedGates(s)
  OBVIOUS
<1>3. PICK v : v = [gates |-> s[1].gates, loaded |-> loaded, result |-> Evaluation(s[1], loaded)]
  OBVIOUS
<1>4. GatesLoad(s[1], loaded) /\ verdicts' = verdicts \cup {v}
  BY <1>1, <1>2, <1>3 DEF CheckGates
<1>5. PICK digests : digests = Earned
  OBVIOUS
<1>6. \A i \in DOMAIN s : s[i].kind = "calibration" /\ s[i].digest.gating => s[i].digest \in digests
  BY <1>1, <1>5, ReadIsGenuine
<1>7. 2..Len(s) \subseteq DOMAIN s
  BY <1>1 DEF InductiveInvariant, TypeInvariant, WasRead
<1>8. VerdictsAreEarned({v}, digests)
  <2> SUFFICES ASSUME NEW i \in DOMAIN s[1].gates, s[1].gates[i].kind = "calibrated_judge",
                      s[1].gates[i].name \notin Evaluation(s[1], loaded).failed
               PROVE  loaded["calibration"].body \in digests
    BY <1>3 DEF VerdictsAreEarned
  <2>1. PICK k : k = loaded["calibration"]
    OBVIOUS
  <2>2. Needs["calibrated_judge"] = "calibration"
    BY DEF Needs
  <2>3. Passes(s[1].gates[i], k)
    BY <2>1, <2>2 DEF Evaluation
  <2>4. k.body.gating
    BY <2>3 DEF Passes, JudgeOk
  <2>5. "calibration" \in DOMAIN loaded /\ CalibrationLoads(k)
    BY <1>4, <2>1, <2>2 DEF GatesLoad
  <2>6. PICK n \in 2..Len(s) : k = s[n]
    BY <1>2, <2>1, <2>5 DEF LoadedGates
  <2> QED
    BY <1>6, <1>7, <2>1, <2>4, <2>5, <2>6 DEF CalibrationLoads
<1> QED
  BY <1>4, <1>5, <1>8 DEF VerdictsAreEarned

LEMMA GatesStayEarned ==
  ASSUME InductiveInvariant, GatesAreEarned, [Next]_vars
  PROVE  GatesAreEarned'
<1>1. PagesAreEarned(pages, Earned) /\ VerdictsAreEarned(verdicts, Earned)
  BY DEF GatesAreEarned, PagesAreEarned, VerdictsAreEarned
<1>2. Earned \subseteq Earned'
  BY ZenonT(30) DEF Next, vars, history, Step, Start, Read, RefuseInput, RefuseAll, RunJudgment,
     ValidateCalibration, AttachCalibration, CompareRuns, BuildSuite, CheckGates, OpenOut, Fill,
     Temporaries, WriteTemporary, PlaceFirst, PlaceSecond, PlaceFails, WriteFails, Dies, Replace,
     Edit, Earned
<1>3. PICK digests, more : digests = Earned /\ more = Earned'
  OBVIOUS
<1>4. PICK now, then : now = pages' /\ then = verdicts'
  OBVIOUS
<1>5. PagesAreEarned(now, digests)
  <2>1. CASE \E c \in Commands : BuildSuite(c)
    BY <1>1, <1>3, <1>4, <2>1, BuildEarns
  <2>2. CASE UNCHANGED pages
    BY <1>1, <1>3, <1>4, <2>2
  <2> QED
    BY ZenonT(30), <2>1, <2>2 DEF Next, vars, history, Step, Start, Read, RefuseInput, RefuseAll,
       RunJudgment, ValidateCalibration, AttachCalibration, CompareRuns, CheckGates, OpenOut,
       Fill, Temporaries, WriteTemporary, PlaceFirst, PlaceSecond, PlaceFails, WriteFails, Dies,
       Replace, Edit
<1>6. VerdictsAreEarned(then, digests)
  <2>1. CASE \E c \in Commands : CheckGates(c)
    BY <1>1, <1>3, <1>4, <2>1, CheckEarns
  <2>2. CASE UNCHANGED verdicts
    BY <1>1, <1>3, <1>4, <2>2
  <2> QED
    BY ZenonT(30), <2>1, <2>2 DEF Next, vars, history, Step, Start, Read, RefuseInput, RefuseAll,
       RunJudgment, ValidateCalibration, AttachCalibration, CompareRuns, BuildSuite, OpenOut,
       Fill, Temporaries, WriteTemporary, PlaceFirst, PlaceSecond, PlaceFails, WriteFails, Dies,
       Replace, Edit
<1>7. PagesAreEarned(now, more) /\ VerdictsAreEarned(then, more)
  BY <1>2, <1>3, <1>5, <1>6, MoreEarned
<1> QED
  BY <1>3, <1>4, <1>7 DEF GatesAreEarned, PagesAreEarned, VerdictsAreEarned

\* Nothing lights a gate but a calibration that was computed and passed, and
\* for a judgment the one that was computed for it.
THEOREM NothingElseGates == Spec => []GatesAreEarned
<1>1. Init => GatesAreEarned
  BY DEF Init, GatesAreEarned
<1>2. InductiveInvariant /\ GatesAreEarned /\ [Next]_vars => GatesAreEarned'
  BY GatesStayEarned
<1> QED
  BY <1>1, <1>2, CalibrationsAreGenuine, PTL DEF Spec

-----------------------------------------------------------------------------
(* What attach_calibration makes.                                          *)

LEMMA AttachedIsBound ==
  ASSUME NEW j, NEW k, WellMade(j), IsA(j, "judgment"), CanAttach(j, k), j.body.dumped
  PROVE  IsBound(Attached(j, k), {k.digest})
<1>1. /\ j = [n \in {"kind", "body", "gating", "claimed"} |-> j[n]]
      /\ j.body = [n \in {"mode", "rubric", "families", "dumped", "items", "summary"} |-> j.body[n]]
      /\ j.body.dumped \in BOOLEAN
  BY DEF WellMade, Fields, IsA
<1>2. PICK body : body = [j.body EXCEPT !.dumped = TRUE]
  OBVIOUS
<1>3. body = j.body
  <2>1. j.body.dumped = TRUE
    BY <1>1
  <2>2. PICK b : b = j.body
    OBVIOUS
  <2>3. /\ b = [n \in {"mode", "rubric", "families", "dumped", "items", "summary"} |-> b[n]]
        /\ b["dumped"] = TRUE /\ body = [b EXCEPT !["dumped"] = TRUE]
    BY <1>1, <1>2, <2>1, <2>2
  <2> QED
    BY <2>2, <2>3
<1>4. PICK a : a = Attached(j, k)
  OBVIOUS
<1>5. a.body = j.body /\ a.gating = TRUE /\ a.claimed = k.digest
  BY <1>1, <1>2, <1>3, <1>4 DEF Attached
<1>6. k.digest = k.body /\ k.body.judgment = Identity(j)
  BY DEF CanAttach, CalibrationLoads
<1>7. IsBound(a, {k.digest})
  BY <1>5, <1>6 DEF IsBound, Identity
<1> QED
  BY <1>4, <1>7

LEMMA AttachedStaysBound ==
  ASSUME InductiveInvariant, AttachedIsRecognised, [Next]_vars
  PROVE  AttachedIsRecognised'
<1>1. CASE \E c \in Commands : AttachCalibration(c)
  <2>1. PICK c \in Commands : AttachCalibration(c)
    BY <1>1
  <2>2. PICK j, k : j = seen[c][1] /\ k = seen[c][2]
    OBVIOUS
  <2>3. PICK m : m = Attached(j, k)
    OBVIOUS
  <2>4. PICK a : a = [of |-> j, with |-> k, made |-> m]
    OBVIOUS
  <2>5. attached' = attached \cup {a} /\ CanAttach(j, k)
    BY <2>1, <2>2, <2>3, <2>4 DEF AttachCalibration
  <2>6. j \in Held /\ IsA(j, "judgment")
    BY <2>1, <2>2, <2>5, AttachHasRead
    DEF IsA, AttachCalibration, InductiveInvariant, CanAttach, JudgmentLoads
  <2>7. j.body.dumped => IsBound(m, {k.digest})
    BY <2>3, <2>5, <2>6, AttachedIsBound DEF InductiveInvariant, TypeInvariant
  <2> QED
    BY <2>4, <2>5, <2>7 DEF AttachedIsRecognised
<1>2. CASE UNCHANGED attached
  BY <1>2 DEF AttachedIsRecognised
<1> QED
  BY ZenonT(30), <1>1, <1>2 DEF Next, vars, history, Step, Start, Read, RefuseInput, RefuseAll,
     RunJudgment, ValidateCalibration, CompareRuns, BuildSuite, CheckGates, OpenOut, Fill,
     Temporaries, WriteTemporary, PlaceFirst, PlaceSecond, PlaceFails, WriteFails, Dies, Replace,
     Edit

\* A judgment that a calibration was attached to is recognised by every suite
\* that loads that calibration.
THEOREM AttachingIsRecognised == Spec => []AttachedIsRecognised
<1>1. Init => AttachedIsRecognised
  BY DEF Init, AttachedIsRecognised
<1>2. InductiveInvariant /\ AttachedIsRecognised /\ [Next]_vars => AttachedIsRecognised'
  BY AttachedStaysBound
<1> QED
  BY <1>1, <1>2, CalibrationsAreGenuine, PTL DEF Spec

-----------------------------------------------------------------------------
(* What a digest says of a suite.                                          *)

\* The digest tells the contents of every section, in no order.
LEMMA DigestTellsContents ==
  ASSUME NEW s, NEW t, SuiteDigest(s) = SuiteDigest(t), NEW section \in Sections
  PROVE  ToSet(s[section]) = ToSet(t[section])
<1>1. PICK d, e : d = SuiteDigest(s) /\ e = SuiteDigest(t)
  OBVIOUS
<1>2. d.contents[section] = Copies(s[section]) /\ e.contents[section] = Copies(t[section])
  BY <1>1 DEF SuiteDigest
<1>3. DOMAIN Copies(s[section]) = ToSet(s[section]) /\ DOMAIN Copies(t[section]) = ToSet(t[section])
  BY DEF Copies
<1> QED
  BY <1>1, <1>2, <1>3

\* What is left out is said of the reports, wherever they are listed.
LEMMA ExclusionsByContent ==
  ASSUME NEW s, NEW t, ToSet(s.members) = ToSet(t.members)
  PROVE  Exclusions(s) = Exclusions(t)
<1> DEFINE Row(m) == [run |-> m.run, reason |-> ExclusionReason(m)]
<1>1. \A u : Exclusions(u) = {Row(m) : m \in {m \in ToSet(u.members) : ~m.publishable}}
  BY DEF Exclusions, ToSet
<1> HIDE DEF Row
<1> QED
  BY <1>1

\* Which judgments gate is said of the judgments and the calibrations.
LEMMA JudgesByContent ==
  ASSUME NEW s, NEW t, ToSet(s.judges) = ToSet(t.judges),
         ToSet(s.calibrations) = ToSet(t.calibrations)
  PROVE  ToSet(JudgeSummaries(s)) = ToSet(JudgeSummaries(t))
<1>1. \A u : Passing(u) = {k.digest : k \in {k \in ToSet(u.calibrations) : k.body.gating}}
  BY DEF Passing, ToSet
<1>2. PICK passing : passing = Passing(s) /\ passing = Passing(t)
  BY <1>1
<1> DEFINE Row(j) == [of |-> j, gating |-> IsBound(j, passing)]
<1>3. \A u : Passing(u) = passing => ToSet(JudgeSummaries(u)) = {Row(j) : j \in ToSet(u.judges)}
  <2> SUFFICES ASSUME NEW u, Passing(u) = passing
               PROVE  ToSet(JudgeSummaries(u)) = {Row(j) : j \in ToSet(u.judges)}
    OBVIOUS
  <2>1. JudgeSummaries(u) = [i \in DOMAIN u.judges |-> Row(u.judges[i])]
    BY DEF JudgeSummaries
  <2> HIDE DEF Row
  <2> QED
    BY <2>1 DEF ToSet
<1> HIDE DEF Row
<1> QED
  BY <1>2, <1>3

LEMMA DigestDecides ==
  ASSUME NEW s, NEW t, SuiteDigest(s) = SuiteDigest(t)
  PROVE  /\ Exclusions(s) = Exclusions(t)
         /\ ToSet(s.compares) = ToSet(t.compares)
         /\ ToSet(JudgeSummaries(s)) = ToSet(JudgeSummaries(t))
<1>1. \A section \in Sections : ToSet(s[section]) = ToSet(t[section])
  BY DigestTellsContents
<1>2. /\ ToSet(s.members) = ToSet(t.members) /\ ToSet(s.compares) = ToSet(t.compares)
      /\ ToSet(s.judges) = ToSet(t.judges) /\ ToSet(s.calibrations) = ToSet(t.calibrations)
  BY <1>1 DEF Sections
<1> QED
  BY <1>2, ExclusionsByContent, JudgesByContent

PagesWereAssembled == \A p \in pages : \E suite : p = AssembleSuite(suite)

LEMMA PagesStayAssembled ==
  ASSUME PagesWereAssembled, [Next]_vars
  PROVE  PagesWereAssembled'
<1>1. CASE \E c \in Commands : BuildSuite(c)
  <2>1. PICK suite : pages' = pages \cup {AssembleSuite(suite)}
    BY <1>1 DEF BuildSuite
  <2> QED
    BY <2>1 DEF PagesWereAssembled
<1>2. CASE UNCHANGED pages
  BY <1>2 DEF PagesWereAssembled
<1> QED
  BY ZenonT(30), <1>1, <1>2 DEF Next, vars, history, Step, Start, Read, RefuseInput, RefuseAll,
     RunJudgment, ValidateCalibration, AttachCalibration, CompareRuns, CheckGates, OpenOut, Fill,
     Temporaries, WriteTemporary, PlaceFirst, PlaceSecond, PlaceFails, WriteFails, Dies, Replace,
     Edit

\* Two suites of one digest say the same of what may gate and what is left
\* out, whenever and from whichever paths they were built.
THEOREM DigestsDecide == Spec => []DigestNamesDecisions
<1>1. Init => PagesWereAssembled
  BY DEF Init, PagesWereAssembled
<1>2. PagesWereAssembled /\ [Next]_vars => PagesWereAssembled'
  BY PagesStayAssembled
<1>3. PagesWereAssembled => DigestNamesDecisions
  <2> SUFFICES ASSUME PagesWereAssembled, NEW p \in pages, NEW q \in pages, p.digest = q.digest
               PROVE  /\ p.exclusions = q.exclusions
                      /\ ToSet(p.comparisons) = ToSet(q.comparisons)
                      /\ ToSet(p.judges) = ToSet(q.judges)
    BY DEF DigestNamesDecisions
  <2>1. PICK s : p = AssembleSuite(s)
    BY DEF PagesWereAssembled
  <2>2. PICK t : q = AssembleSuite(t)
    BY DEF PagesWereAssembled
  <2>3. /\ p.digest = SuiteDigest(s) /\ p.exclusions = Exclusions(s)
        /\ p.comparisons = s.compares /\ p.judges = JudgeSummaries(s)
    BY <2>1 DEF AssembleSuite
  <2>4. /\ q.digest = SuiteDigest(t) /\ q.exclusions = Exclusions(t)
        /\ q.comparisons = t.compares /\ q.judges = JudgeSummaries(t)
    BY <2>2 DEF AssembleSuite
  <2> QED
    BY <2>3, <2>4, DigestDecides
<1> QED
  BY <1>1, <1>2, <1>3, PTL DEF Spec

-----------------------------------------------------------------------------
(* Which files a command has read.                                         *)

\* What judge validate and runs compare read, in order.
ReadKinds == [validate |-> <<"judgment", "labels", "rubric">>, compare |-> <<"verdicts", "verdicts">>]
ReadsInOrder ==
    /\ task = [c \in Commands |-> task[c]]
    /\ \A c \in Commands : pc[c] = "idle" => seen[c] = <<>>
    /\ \A c \in Commands : task[c].kind \in DOMAIN ReadKinds =>
        \A i \in DOMAIN seen[c] : i \in DOMAIN ReadKinds[task[c].kind] =>
            seen[c][i].kind = ReadKinds[task[c].kind][i]

LEMMA WantedKinds ==
  ASSUME NEW t, t.kind \in DOMAIN ReadKinds, NEW contents
  PROVE  /\ Len(Wanted(t, contents)) \in Nat
         /\ Len(Wanted(t, contents)) >= Len(ReadKinds[t.kind])
         /\ \A i \in DOMAIN ReadKinds[t.kind] : Wanted(t, contents)[i].kind = ReadKinds[t.kind][i]
<1>1. PICK w : w = Wanted(t, contents)
  OBVIOUS
<1>2. DeclaredInputs(t, contents[1]) = <<>>
  BY DEF DeclaredInputs, ReadKinds
<1>3. CASE t.kind = "compare"
  <2>1. PICK x, y : FixedInputs(t) = <<x, y>> /\ x.kind = "verdicts" /\ y.kind = "verdicts"
    BY <1>3 DEF FixedInputs, Input
  <2>2. w = <<x, y>> \o <<>>
    BY <1>1, <1>2, <2>1 DEF Wanted
  <2>3. w = <<x, y>>
    BY <2>2
  <2>4. ReadKinds["compare"] = <<"verdicts", "verdicts">>
    BY DEF ReadKinds
  <2>5. \A i \in DOMAIN <<"verdicts", "verdicts">> : w[i].kind = <<"verdicts", "verdicts">>[i]
    BY <2>1, <2>3
  <2> QED
    BY <1>1, <1>3, <2>3, <2>4, <2>5
<1>4. CASE t.kind = "validate"
  <2>1. PICK x, y, z, more :
            /\ FixedInputs(t) = <<x, y, z>> \o more
            /\ more = <<>> \/ \E u : more = <<u>>
            /\ x.kind = "judgment" /\ y.kind = "labels" /\ z.kind = "rubric"
    <3>1. PICK x, y, z, u : /\ x = Input(t.judgment, "judgment") /\ y = Input(t.holdout, "labels")
                            /\ z = Input(t.rubric, "rubric") /\ u = Input(t.dev, "labels")
      OBVIOUS
    <3>2. FixedInputs(t) = <<x, y, z>> \o (IF t.dev = NoValue THEN <<>> ELSE <<u>>)
      BY <1>4, <3>1 DEF FixedInputs
    <3>3. x.kind = "judgment" /\ y.kind = "labels" /\ z.kind = "rubric"
      BY <3>1 DEF Input
    <3>4. PICK more : more = (IF t.dev = NoValue THEN <<>> ELSE <<u>>)
      OBVIOUS
    <3> QED
      BY <3>2, <3>3, <3>4, Zenon
  <2>2. w = (<<x, y, z>> \o more) \o <<>>
    BY <1>1, <1>2, <2>1 DEF Wanted
  <2>3. \E V : <<x, y, z>> \in Seq(V) /\ more \in Seq(V)
    <3>1. CASE more = <<>>
      <4>1. <<x, y, z>> \in Seq({x, y, z}) /\ more \in Seq({x, y, z})
        BY <3>1
      <4> QED
        BY <4>1
    <3>2. CASE \E u : more = <<u>>
      <4>1. PICK u : more = <<u>>
        BY <3>2
      <4>2. <<x, y, z>> \in Seq({x, y, z, u}) /\ more \in Seq({x, y, z, u})
        BY <4>1
      <4> QED
        BY <4>2
    <3> QED
      BY <2>1, <3>1, <3>2
  <2>4. ReadKinds["validate"] = <<"judgment", "labels", "rubric">>
    BY DEF ReadKinds
  <2>5. /\ Len(w) \in Nat /\ Len(w) >= 3
        /\ w[1] = x /\ w[2] = y /\ w[3] = z
    <3>1. PICK V : <<x, y, z>> \in Seq(V) /\ more \in Seq(V)
      BY <2>3
    <3>2. PICK s : s = <<x, y, z>>
      OBVIOUS
    <3>3. s \in Seq(V) /\ Len(s) = 3 /\ s[1] = x /\ s[2] = y /\ s[3] = z
      BY <3>1, <3>2
    <3>4. PICK v : v = s \o more
      OBVIOUS
    <3>5. v \in Seq(V) /\ Len(v) \in Nat /\ Len(v) >= 3 /\ \A i \in 1..3 : v[i] = s[i]
      <4>0. s \in Seq(V) /\ more \in Seq(V)
        BY <3>1, <3>3
      <4>1. /\ v \in Seq(V) /\ Len(v) = Len(s) + Len(more)
            /\ \A i \in 1..Len(s) + Len(more) :
                    v[i] = IF i <= Len(s) THEN s[i] ELSE more[i - Len(s)]
        BY <3>4, <4>0, ConcatProperties, Zenon
      <4>2. Len(more) \in Nat
        BY <3>1
      <4> QED
        BY <3>3, <4>1, <4>2
    <3>6. w = v
      BY <2>2, <3>2, <3>4, <3>5, ConcatEmptySeq
    <3> QED
      BY <3>3, <3>5, <3>6
  <2>6. \A i \in DOMAIN <<"judgment", "labels", "rubric">> :
            w[i].kind = <<"judgment", "labels", "rubric">>[i]
    BY <2>1, <2>5
  <2> QED
    BY <1>1, <1>4, <2>4, <2>5, <2>6
<1> QED
  BY <1>3, <1>4 DEF ReadKinds

\* What a step does to where commands are, what they were asked and have read.
Going(c) ==
    /\ UNCHANGED <<task, seen>>
    /\ \E place \in {"write", "fill"} \cup Building : pc' = [pc EXCEPT ![c] = place]

LEMMA Course ==
  ASSUME [Next]_vars
  PROVE  \/ \E c \in Commands : \E t \in TasksOf[c] : Start(c, t)
         \/ \E c \in Commands : (Read(c) \/ End(c) \/ Going(c))
         \/ UNCHANGED <<pc, task, seen>>
<1>1. ASSUME NEW c \in Commands, Step(c) PROVE Read(c) \/ End(c) \/ Going(c)
  <2>1. CASE RunJudgment(c) \/ ValidateCalibration(c) \/ AttachCalibration(c) \/ CompareRuns(c)
    <3>1. \E content : Writes(c, content, "write")
      BY <2>1 DEF RunJudgment, ValidateCalibration, AttachCalibration, CompareRuns
    <3> QED
      BY <3>1 DEF Writes, Going
  <2>2. CASE BuildSuite(c)
    BY <2>2 DEF BuildSuite, Writes, Going, Building
  <2>3. CASE Temporaries(c)
    BY <2>3 DEF Temporaries, WriteTemporary, Going, Building
  <2>4. CASE OpenOut(c) \/ PlaceFirst(c)
    BY <2>4 DEF OpenOut, PlaceFirst, Going, Building
  <2>5. CASE RefuseInput(c) \/ RefuseAll(c) \/ CheckGates(c) \/ Fill(c) \/ PlaceSecond(c) \/ PlaceFails(c)
    BY <2>5 DEF RefuseInput, RefuseAll, CheckGates, Fill, PlaceSecond, PlaceFails
  <2> QED
    BY <1>1, <2>1, <2>2, <2>3, <2>4, <2>5 DEF Step
<1>2. ASSUME NEW c \in Commands, WriteFails(c) \/ Dies(c) PROVE End(c)
  BY <1>2 DEF WriteFails, Dies
<1>3. ASSUME NEW f \in Files, Edit(f) \/ \E k \in Versions[f] : Replace(f, k)
     PROVE  UNCHANGED <<pc, task, seen>>
  BY <1>3 DEF Replace, Edit, command
<1>4. CASE UNCHANGED vars
  BY <1>4 DEF vars, command
<1> QED
  BY <1>1, <1>2, <1>3, <1>4 DEF Next

LEMMA ReadsStayInOrder ==
  ASSUME InductiveInvariant, ReadsInOrder, [Next]_vars
  PROVE  ReadsInOrder'
<1>1. /\ pc \in [Commands -> Places] /\ seen = [c \in Commands |-> seen[c]]
      /\ \A c \in Commands : WasRead(seen[c])
  BY DEF InductiveInvariant, TypeInvariant
<1>2. ASSUME NEW c \in Commands, NEW t, Start(c, t) PROVE ReadsInOrder'
  <2>1. /\ pc[c] = "idle" /\ pc' = [pc EXCEPT ![c] = "read"]
        /\ task' = [task EXCEPT ![c] = t] /\ seen' = seen
    BY <1>2 DEF Start
  <2>2. seen[c] = <<>>
    BY <2>1 DEF ReadsInOrder
  <2>3. /\ task' = [d \in Commands |-> task'[d]]
        /\ \A d \in Commands : task'[d] = IF d = c THEN t ELSE task[d]
    BY <2>1 DEF ReadsInOrder
  <2>4. \A d \in Commands : pc'[d] = "idle" => seen'[d] = <<>>
    BY <1>1, <2>1 DEF ReadsInOrder
  <2> QED
    BY <2>1, <2>2, <2>3, <2>4 DEF ReadsInOrder
<1>3. ASSUME NEW c \in Commands, Read(c) PROVE ReadsInOrder'
  <2>1. PICK t, s, k : t = task[c] /\ s = seen[c] /\ k = Content(NextInput(c).file)
    OBVIOUS
  <2>2. /\ UNCHANGED <<pc, task>> /\ seen' = [seen EXCEPT ![c] = Append(s, k)]
        /\ k.kind = NextInput(c).kind /\ pc[c] = "read"
    BY <1>3, <2>1 DEF Read, Reading, Accepts
  <2>3. NextInput(c) = Wanted(t, s)[Len(s) + 1]
    BY <2>1 DEF NextInput
  <2>4. WasRead(s) /\ k \notin {Nothing, Torn}
    BY <1>1, <1>3, <2>1 DEF Read, Accepts
  <2>5. t.kind \in DOMAIN ReadKinds => \A i \in DOMAIN Append(s, k) :
            i \in DOMAIN ReadKinds[t.kind] => Append(s, k)[i].kind = ReadKinds[t.kind][i]
    <3>1. s \in Seq(ToSet(s) \cup {k})
      BY <2>4, SeqOfMore DEF WasRead
    <3>2. /\ Len(s) \in Nat /\ DOMAIN s = 1..Len(s) /\ DOMAIN Append(s, k) = 1..(Len(s) + 1)
          /\ \A i \in 1..Len(s) : Append(s, k)[i] = s[i]
          /\ Append(s, k)[Len(s) + 1] = k
      BY <3>1
    <3>3. t.kind \in DOMAIN ReadKinds => \A i \in DOMAIN ReadKinds[t.kind] :
            Wanted(t, s)[i].kind = ReadKinds[t.kind][i]
      BY WantedKinds
    <3>4. t.kind \in DOMAIN ReadKinds => \A i \in DOMAIN s :
            i \in DOMAIN ReadKinds[t.kind] => s[i].kind = ReadKinds[t.kind][i]
      BY <2>1 DEF ReadsInOrder
    <3>5. PICK r : r = Append(s, k)
      OBVIOUS
    <3>6. t.kind \in DOMAIN ReadKinds => \A i \in DOMAIN r :
            i \in DOMAIN ReadKinds[t.kind] => r[i].kind = ReadKinds[t.kind][i]
      BY <2>2, <2>3, <3>2, <3>3, <3>4, <3>5
    <3> QED
      BY <3>5, <3>6
  <2>6. PICK r : r = Append(s, k)
    OBVIOUS
  <2>7. \A d \in Commands : seen'[d] = IF d = c THEN r ELSE seen[d]
    BY <1>1, <2>2, <2>6
  <2>8. t.kind \in DOMAIN ReadKinds => \A i \in DOMAIN r :
            i \in DOMAIN ReadKinds[t.kind] => r[i].kind = ReadKinds[t.kind][i]
    BY <2>5, <2>6
  <2>9. ASSUME NEW d \in Commands, task'[d].kind \in DOMAIN ReadKinds, NEW i \in DOMAIN seen'[d],
               i \in DOMAIN ReadKinds[task'[d].kind]
        PROVE  seen'[d][i].kind = ReadKinds[task'[d].kind][i]
    <3>1. CASE d = c
      <4>1. seen'[d] = r /\ task'[d] = t
        BY <2>1, <2>2, <2>7, <3>1
      <4> QED
        BY <2>8, <2>9, <4>1, Zenon
    <3>2. CASE d # c
      BY <2>2, <2>7, <2>9, <3>2 DEF ReadsInOrder
    <3> QED
      BY <3>1, <3>2
  <2>10. task' = [d \in Commands |-> task'[d]]
    BY <2>2 DEF ReadsInOrder
  <2>11. \A d \in Commands : pc'[d] = "idle" => seen'[d] = <<>>
    BY <2>2, <2>7 DEF ReadsInOrder
  <2> QED
    BY <2>9, <2>10, <2>11 DEF ReadsInOrder
<1>4. ASSUME NEW c \in Commands, End(c) PROVE ReadsInOrder'
  <2>1. /\ pc' = [pc EXCEPT ![c] = "idle"] /\ seen' = [seen EXCEPT ![c] = <<>>]
        /\ task' = [task EXCEPT ![c] = Nothing]
    BY <1>4 DEF End
  <2>2. /\ task' = [d \in Commands |-> task'[d]]
        /\ \A d \in Commands : /\ d # c => task'[d] = task[d] /\ pc'[d] = pc[d]
                               /\ seen'[d] = IF d = c THEN <<>> ELSE seen[d]
    BY <1>1, <2>1 DEF ReadsInOrder
  <2> QED
    BY <2>2 DEF ReadsInOrder
<1>5. ASSUME NEW c \in Commands, Going(c) PROVE ReadsInOrder'
  <2>1. PICK place : place # "idle" /\ pc' = [pc EXCEPT ![c] = place] /\ UNCHANGED <<task, seen>>
    BY <1>5 DEF Going, Building
  <2>2. \A d \in Commands : pc'[d] = "idle" => pc[d] = "idle"
    BY <1>1, <2>1
  <2> QED
    BY <2>1, <2>2 DEF ReadsInOrder
<1>6. CASE UNCHANGED <<pc, task, seen>>
  BY <1>6 DEF ReadsInOrder
<1> QED
  BY <1>2, <1>3, <1>4, <1>5, <1>6, Course

\* A command holds what it was asked to read, in the order it reads it.
THEOREM FilesAreOfTheirKind == Spec => []ReadsInOrder
<1>1. Init => ReadsInOrder
  BY DEF Init, ReadsInOrder
<1>2. InductiveInvariant /\ ReadsInOrder /\ [Next]_vars => ReadsInOrder'
  BY ReadsStayInOrder
<1> QED
  BY <1>1, <1>2, CalibrationsAreGenuine, PTL DEF Spec

-----------------------------------------------------------------------------
(* Which run is called the baseline.                                       *)

LEMMA FlakyEitherWay == \A old, new : Flaky(old, new) = Flaky(new, old)
BY DEF Flaky

LEMMA StableEitherWay == \A old, new : Stable(old, new) = Stable(new, old)
<1> TAKE old, new
<1>1. PICK flaky : flaky = Flaky(old, new) /\ flaky = Flaky(new, old)
  BY FlakyEitherWay
<1> QED
  BY <1>1 DEF Stable

LEMMA McNemarEitherWay ==
  ASSUME NEW losses \in Nat, NEW wins \in Nat
  PROVE  ExactMcNemar(losses, wins) = ExactMcNemar(wins, losses)
<1>1. losses + wins = wins + losses
  OBVIOUS
<1>2. (IF losses < wins THEN losses ELSE wins) = (IF wins < losses THEN wins ELSE losses)
  OBVIOUS
<1>3. PICK both, fewer : /\ both = losses + wins /\ both = wins + losses
                         /\ fewer = (IF losses < wins THEN losses ELSE wins)
                         /\ fewer = (IF wins < losses THEN wins ELSE losses)
  BY <1>1, <1>2
<1> QED
  BY <1>3, Zenon DEF ExactMcNemar

\* What is counted of a comparison is counted of no more cases than a run has.
LEMMA CountsOfStable ==
  ASSUME NEW run, NEW old \in PairedOutcomes(run), NEW new, IsFiniteSet(Keys(run)),
         Stable(old, new) # {}, NEW T, T \subseteq Stable(old, new)
  PROVE  /\ Cardinality(Stable(old, new)) \in 1..Cardinality(Keys(run))
         /\ Cardinality(T) \in 0..Cardinality(Stable(old, new))
<1>1. PICK keys, all : keys = Stable(old, new) /\ all = Keys(run)
  OBVIOUS
<1>2. keys \subseteq all
  BY <1>1 DEF Stable, PairedOutcomes
<1>3. /\ IsFiniteSet(keys) /\ Cardinality(keys) <= Cardinality(all)
      /\ Cardinality(all) \in Nat /\ Cardinality(keys) \in Nat /\ Cardinality(keys) # 0
  BY <1>1, <1>2, FS_Subset, FS_CardinalityType, FS_EmptySet
<1>4. IsFiniteSet(T) /\ Cardinality(T) <= Cardinality(keys) /\ Cardinality(T) \in Nat
  BY <1>1, <1>3, FS_Subset, FS_CardinalityType
<1> QED
  BY <1>1, <1>3, <1>4

LEMMA ComparedEitherWay ==
  ASSUME NEW baseline, NEW old \in PairedOutcomes(baseline), NEW candidate, NEW new,
         IsFiniteSet(Keys(baseline)), 1..Cardinality(Keys(baseline)) \subseteq DOMAIN Angle,
         Stable(old, new) # {},
         NEW there, there = ComparisonOf(baseline, old, candidate, new),
         NEW back, back = ComparisonOf(candidate, new, baseline, old)
  PROVE  /\ there.flaky = back.flaky /\ there.n = back.n
         /\ there.p = back.p /\ there.significant = back.significant
         /\ there.new - there.old = back.old - back.new
         /\ there.h = -back.h
<1>1. PICK keys : keys = Stable(old, new) /\ keys = Stable(new, old)
  BY StableEitherWay
<1>2. PICK n, passedOld, passedNew :
        /\ n = Cardinality(keys)
        /\ passedOld = Cardinality({k \in keys : old[k]})
        /\ passedNew = Cardinality({k \in keys : new[k]})
  OBVIOUS
<1>3. PICK losses, wins :
        /\ losses = Cardinality({k \in keys : old[k] /\ ~new[k]})
        /\ wins = Cardinality({k \in keys : ~old[k] /\ new[k]})
  OBVIOUS
<1>4. /\ wins = Cardinality({k \in keys : new[k] /\ ~old[k]})
      /\ losses = Cardinality({k \in keys : ~new[k] /\ old[k]})
  <2>1. {k \in keys : ~old[k] /\ new[k]} = {k \in keys : new[k] /\ ~old[k]}
    OBVIOUS
  <2>2. {k \in keys : old[k] /\ ~new[k]} = {k \in keys : ~new[k] /\ old[k]}
    OBVIOUS
  <2> QED
    BY <1>3, <2>1, <2>2
<1>5. losses \in Nat /\ wins \in Nat
  <2>1. ASSUME NEW T, T \subseteq keys PROVE Cardinality(T) \in Nat
    <3>1. T \subseteq Stable(old, new)
      BY <1>1, <2>1
    <3>2. Cardinality(T) \in 0..Cardinality(Stable(old, new))
      BY <3>1, CountsOfStable
    <3> QED
      BY <3>2
  <2> QED
    BY <1>3, <2>1
<1>6. /\ n \in DOMAIN Angle /\ Angle[n][passedOld] \in Int /\ Angle[n][passedNew] \in Int
  <2>1. \A T : T \subseteq keys => n \in 1..Cardinality(Keys(baseline)) /\ Cardinality(T) \in 0..n
    BY <1>1, <1>2, CountsOfStable
  <2>2. n \in 1..Cardinality(Keys(baseline)) /\ passedOld \in 0..n /\ passedNew \in 0..n
    BY <1>2, <2>1
  <2> QED
    BY <2>2, AngleAssumption
<1>7. PICK p : p = ExactMcNemar(losses, wins) /\ p = ExactMcNemar(wins, losses)
  BY <1>5, McNemarEitherWay
<1>8. /\ there.flaky = Flaky(old, new) /\ there.n = n /\ there.p = p
      /\ there.old = passedOld /\ there.new = passedNew
      /\ there.h = Angle[n][passedNew] - Angle[n][passedOld]
      /\ there.significant = (1 \in BenjaminiHochberg(<<p>>, Q))
  BY <1>1, <1>2, <1>3, <1>7 DEF ComparisonOf
<1>9. /\ back.flaky = Flaky(new, old) /\ back.n = n /\ back.p = p
      /\ back.old = passedNew /\ back.new = passedOld
      /\ back.h = Angle[n][passedOld] - Angle[n][passedNew]
      /\ back.significant = (1 \in BenjaminiHochberg(<<p>>, Q))
  BY <1>1, <1>2, <1>4, <1>7 DEF ComparisonOf
<1>10. there.h = -back.h
  <2>1. \A x, y \in Int : x - y = -(y - x)
    OBVIOUS
  <2> QED
    BY <1>6, <1>8, <1>9, <2>1
<1> QED
  BY <1>8, <1>9, <1>10, FlakyEitherWay

\* runs compare has read two runs.
LEMMA CompareHasRead ==
  ASSUME InductiveInvariant, ReadsInOrder, NEW c \in Commands, HasRead(c, "compare")
  PROVE  IsA(seen[c][1], "verdicts") /\ WellMade(seen[c][1])
<1>1. PICK s, t : s = seen[c] /\ t = task[c]
  OBVIOUS
<1>2. t.kind = "compare" /\ Len(s) = Len(Wanted(t, s)) /\ WasRead(s)
  BY <1>1 DEF HasRead, InductiveInvariant, TypeInvariant
<1>3. "compare" \in DOMAIN ReadKinds /\ ReadKinds["compare"] = <<"verdicts", "verdicts">>
  BY DEF ReadKinds
<1>4. Len(s) >= 2
  BY <1>2, <1>3, WantedKinds
<1>5. 1 \in DOMAIN s
  BY <1>2, <1>4 DEF WasRead
<1>6. s[1].kind = "verdicts"
  BY <1>1, <1>2, <1>3, <1>5 DEF ReadsInOrder
<1>7. s[1] \in Held /\ s[1] \notin {Nothing, Torn}
  BY <1>1, <1>5, SectionHeld DEF InductiveInvariant
<1> QED
  BY <1>1, <1>6, <1>7 DEF IsA, InductiveInvariant, TypeInvariant

LEMMA ComparisonsStaySymmetric ==
  ASSUME InductiveInvariant, ReadsInOrder, ComparisonIsSymmetric, [Next]_vars
  PROVE  ComparisonIsSymmetric'
<1>1. CASE \E c \in Commands : CompareRuns(c)
  <2>1. PICK c \in Commands : CompareRuns(c)
    BY <1>1
  <2>2. PICK one, other : one = seen[c][1] /\ other = seen[c][2]
    OBVIOUS
  <2>3. PICK old, new :
            /\ old \in PairedOutcomes(one) /\ Stable(old, new) # {}
            /\ compared' = compared \cup
                {[baseline |-> one, old |-> old, candidate |-> other, new |-> new,
                  result |-> ComparisonOf(one, old, other, new)]}
    BY <2>1, <2>2 DEF CompareRuns
  <2>4. PICK there, back : /\ there = ComparisonOf(one, old, other, new)
                           /\ back = ComparisonOf(other, new, one, old)
    OBVIOUS
  <2>5. HasRead(c, "compare")
    BY <2>1 DEF CompareRuns
  <2>6. IsFiniteSet(Keys(one)) /\ 1..Cardinality(Keys(one)) \subseteq DOMAIN Angle
    BY <2>2, <2>5, CompareHasRead DEF WellMade
  <2>7. /\ there.flaky = back.flaky /\ there.n = back.n
        /\ there.p = back.p /\ there.significant = back.significant
        /\ there.new - there.old = back.old - back.new
        /\ there.h = -back.h
    BY <2>3, <2>4, <2>6, ComparedEitherWay
  <2>8. PICK m : m = [baseline |-> one, old |-> old, candidate |-> other, new |-> new,
                      result |-> there]
    OBVIOUS
  <2>9. /\ compared' = compared \cup {m}
        /\ m.result = there /\ ComparisonOf(m.candidate, m.new, m.baseline, m.old) = back
        /\ Stable(m.new, m.old) # {}
    BY <2>3, <2>4, <2>8, StableEitherWay
  <2> QED
    BY <2>7, <2>9 DEF ComparisonIsSymmetric
<1>2. CASE UNCHANGED compared
  BY <1>2 DEF ComparisonIsSymmetric
<1> QED
  BY ZenonT(30), <1>1, <1>2 DEF Next, vars, history, Step, Start, Read, RefuseInput, RefuseAll,
     RunJudgment, ValidateCalibration, AttachCalibration, BuildSuite, CheckGates, OpenOut, Fill,
     Temporaries, WriteTemporary, PlaceFirst, PlaceSecond, PlaceFails, WriteFails, Dies, Replace,
     Edit

\* A comparison says the same whichever run is called the baseline, for any
\* verdicts of any two runs.
THEOREM EitherRunIsTheBaseline == Spec => []ComparisonIsSymmetric
<1>1. Init => ComparisonIsSymmetric
  BY DEF Init, ComparisonIsSymmetric
<1>2. InductiveInvariant /\ ReadsInOrder /\ ComparisonIsSymmetric /\ [Next]_vars
      => ComparisonIsSymmetric'
  BY ComparisonsStaySymmetric
<1> QED
  BY <1>1, <1>2, CalibrationsAreGenuine, FilesAreOfTheirKind, PTL DEF Spec

-----------------------------------------------------------------------------
(* What lets a calibration gate.                                           *)

LEMMA PairedAreUsed ==
  ASSUME NEW body, NEW labels, NEW i \in Paired(body, labels)
  PROVE  i \in DOMAIN labels.rows /\ labels.rows[i] \in Used(body, labels)
<1>1. i \in DOMAIN labels.rows
  BY DEF Paired
<1>2. \E k \in DOMAIN body.items :
        body.items[k].case = labels.rows[i].case /\ Verdict(body, k) # NoValue
  BY DEF Paired
<1>3. labels.rows[i] \in ToSet(labels.rows)
  BY <1>1 DEF ToSet
<1> QED
  BY <1>1, <1>2, <1>3 DEF Used

\* Labels that name no case twice are paired with as many different cases.
LEMMA PairedAreDifferent ==
  ASSUME NEW body, NEW labels, labels.rows \in Seq(ToSet(labels.rows)), Distinct(labels.rows)
  PROVE  /\ Cardinality(Paired(body, labels)) \in Nat
         /\ Cardinality({row.case : row \in Used(body, labels)}) \in Nat
         /\ Cardinality(Paired(body, labels))
                <= Cardinality({row.case : row \in Used(body, labels)})
<1>1. PICK rows : rows = labels.rows
  OBVIOUS
<1>2. PICK S, T : S = Paired(body, labels) /\ T = {row.case : row \in Used(body, labels)}
  OBVIOUS
<1>3. DOMAIN rows = 1..Len(rows) /\ Len(rows) \in Nat
  BY <1>1
<1>4. IsFiniteSet(DOMAIN rows)
  BY <1>3, FS_Interval
<1>5. IsFiniteSet(ToSet(rows))
  <2>1. ToSet(rows) = {rows[i] : i \in DOMAIN rows}
    BY DEF ToSet
  <2>2. [i \in DOMAIN rows |-> rows[i]] \in Surjection(DOMAIN rows, ToSet(rows))
    BY <2>1 DEF Surjection
  <2> QED
    BY <1>4, <2>2, FS_Surjection
<1>6. IsFiniteSet(Used(body, labels))
  BY <1>1, <1>5, FS_Subset DEF Used
<1>7. IsFiniteSet(T)
  <2>1. PICK U : U = Used(body, labels)
    OBVIOUS
  <2>2. [row \in U |-> row.case] \in Surjection(U, T)
    BY <1>2, <2>1 DEF Surjection
  <2> QED
    BY <1>6, <2>1, <2>2, FS_Surjection
<1>8. [i \in S |-> rows[i].case] \in Injection(S, T)
  <2>1. \A i \in S : i \in DOMAIN rows /\ rows[i].case \in T
    BY <1>1, <1>2, PairedAreUsed
  <2>2. \A i, j \in S : rows[i].case = rows[j].case => i = j
    BY <1>1, <2>1 DEF Distinct
  <2> QED
    BY <2>1, <2>2 DEF Injection, IsInjective
<1>9. Cardinality(S) <= Cardinality(T)
  BY <1>7, <1>8, FS_Injection
<1>10. IsFiniteSet(S)
  BY <1>7, <1>8, FS_Injection
<1> QED
  BY <1>2, <1>7, <1>9, <1>10, FS_CardinalityType

\* Labels and verdicts that are all alike agree on nothing.
LEMMA AlikeDoNotAgree ==
  ASSUME NEW body, NEW labels, NEW rubric, NEW aspect,
         aspect = Aspect(rubric.metric, body.mode),
         \A x, y \in Opinions(body, labels, aspect) : x = y
  PROVE  Section(body, labels, rubric).agreement = NoValue
<1>1. PICK S, h, j : /\ S = Paired(body, labels)
                     /\ h = Human(body, labels, aspect) /\ j = Judge(body, labels, aspect)
  OBVIOUS
<1>2. \A i \in S : /\ labels.rows[i] \in Used(body, labels)
                   /\ h[i] = labels.rows[i].value[aspect]
                   /\ j[i] = Rated(body, labels.rows[i].case)[aspect]
  BY <1>1, PairedAreUsed DEF Human, Judge
<1>3. \A i \in S : {h[i], j[i]} \subseteq Opinions(body, labels, aspect)
  BY <1>2 DEF Opinions
<1>4. \A i, k \in S : h[i] = h[k] /\ h[i] = j[k]
  BY <1>3
<1>5. Agreement(rubric.metric, body.mode, S, h, j) = NoValue
  BY <1>4 DEF Agreement, Constant
<1> QED
  BY <1>1, <1>5 DEF Section

EvidenceOf(judgment, holdout, rubric) ==
    /\ Cardinality({row.case : row \in Used(judgment.body, holdout)}) >= rubric.min_holdout
    /\ \E x, y \in Opinions(judgment.body, holdout, Aspect(rubric.metric, judgment.body.mode)) :
        x # y

LEMMA GatingNeedsEvidence ==
  ASSUME NEW judgment, NEW holdout, NEW dev, NEW rubric,
         CanCalibrate(judgment, holdout, dev, rubric),
         CalibrationOf(judgment, holdout, dev, rubric).body.gating,
         holdout.rows \in Seq(ToSet(holdout.rows)), rubric.min_holdout \in Nat
  PROVE  EvidenceOf(judgment, holdout, rubric)
<1>1. PICK body : body = judgment.body
  OBVIOUS
<1>2. PICK section : section = Section(body, holdout, rubric)
  OBVIOUS
<1>3. \E onDev : GatingAllowed(body, section, onDev, rubric)
  BY <1>1, <1>2 DEF CalibrationOf
<1>4. section.n >= rubric.min_holdout /\ section.agreement # NoValue
  BY <1>3 DEF GatingAllowed
<1>5. section.n = Cardinality(Paired(body, holdout))
  BY <1>2 DEF Section
<1>6. Distinct(holdout.rows)
  BY DEF CanCalibrate, LabelsLoad
<1>7. PICK n, m : /\ n = Cardinality(Paired(body, holdout))
                  /\ m = Cardinality({row.case : row \in Used(body, holdout)})
                  /\ n \in Nat /\ m \in Nat /\ n <= m
  BY <1>6, PairedAreDifferent
<1>8. m >= rubric.min_holdout
  BY <1>4, <1>5, <1>7
<1>9. \E x, y \in Opinions(body, holdout, Aspect(rubric.metric, body.mode)) : x # y
  BY <1>2, <1>4, AlikeDoNotAgree
<1> QED
  BY <1>1, <1>7, <1>8, <1>9 DEF EvidenceOf

\* judge validate has read a judgment, labels and a rubric.
LEMMA ValidateHasRead ==
  ASSUME InductiveInvariant, ReadsInOrder, NEW c \in Commands, HasRead(c, "validate")
  PROVE  /\ IsA(seen[c][2], "labels") /\ WellMade(seen[c][2])
         /\ IsA(seen[c][3], "rubric") /\ WellMade(seen[c][3])
<1>1. PICK s, t : s = seen[c] /\ t = task[c]
  OBVIOUS
<1>2. t.kind = "validate" /\ Len(s) = Len(Wanted(t, s)) /\ WasRead(s)
  BY <1>1 DEF HasRead, InductiveInvariant, TypeInvariant
<1>3. /\ "validate" \in DOMAIN ReadKinds
      /\ ReadKinds["validate"] = <<"judgment", "labels", "rubric">>
  BY DEF ReadKinds
<1>4. Len(s) >= 3
  BY <1>2, <1>3, WantedKinds
<1>5. 2 \in DOMAIN s /\ 3 \in DOMAIN s
  BY <1>2, <1>4 DEF WasRead
<1>6. s[2].kind = "labels" /\ s[3].kind = "rubric"
  BY <1>1, <1>2, <1>3, <1>5 DEF ReadsInOrder
<1>7. {s[2], s[3]} \subseteq Held \ {Nothing, Torn}
  BY <1>1, <1>5, SectionHeld DEF InductiveInvariant
<1> QED
  BY <1>1, <1>6, <1>7 DEF IsA, InductiveInvariant, TypeInvariant

LEMMA EvidenceStaysDistinct ==
  ASSUME InductiveInvariant, ReadsInOrder, EvidenceIsDistinct, [Next]_vars
  PROVE  EvidenceIsDistinct'
<1> DEFINE Fine(e) == EvidenceOf(e.judgment, e.holdout, e.rubric)
<1>1. EvidenceIsDistinct <=> \A e \in earned : Fine(e)
  BY DEF EvidenceIsDistinct, EvidenceOf
<1>2. EvidenceIsDistinct' <=> \A e \in earned' : Fine(e)
  BY DEF EvidenceIsDistinct, EvidenceOf
<1>3. CASE \E c \in Commands : ValidateCalibration(c)
  <2>1. PICK c \in Commands : ValidateCalibration(c)
    BY <1>3
  <2>2. PICK judgment, holdout, dev, rubric :
            judgment = seen[c][1] /\ holdout = seen[c][2] /\ dev = Dev(c) /\ rubric = seen[c][3]
    OBVIOUS
  <2>3. PICK k : k = CalibrationOf(judgment, holdout, dev, rubric)
    OBVIOUS
  <2>4. PICK e : e = [calibration |-> k.body, judgment |-> judgment, holdout |-> holdout,
                      rubric |-> rubric]
    OBVIOUS
  <2>5. /\ CanCalibrate(judgment, holdout, dev, rubric) /\ HasRead(c, "validate")
        /\ earned' = earned \cup {x \in {e} : k.body.gating}
    BY <2>1, <2>2, <2>3, <2>4 DEF ValidateCalibration
  <2>6. holdout.rows \in Seq(ToSet(holdout.rows)) /\ rubric.min_holdout \in Nat
    BY <2>2, <2>5, ValidateHasRead DEF WellMade
  <2>7. k.body.gating => EvidenceOf(judgment, holdout, rubric)
    BY <2>3, <2>5, <2>6, GatingNeedsEvidence
  <2>8. k.body.gating => Fine(e)
    BY <2>4, <2>7
  <2> HIDE DEF Fine
  <2> QED
    BY <1>1, <1>2, <2>5, <2>8
<1>4. CASE UNCHANGED earned
  BY <1>1, <1>2, <1>4
<1> QED
  BY ZenonT(30), <1>3, <1>4 DEF Next, vars, history, Step, Start, Read, RefuseInput, RefuseAll,
     RunJudgment, AttachCalibration, CompareRuns, BuildSuite, CheckGates, OpenOut, Fill,
     Temporaries, WriteTemporary, PlaceFirst, PlaceSecond, PlaceFails, WriteFails, Dies, Replace,
     Edit

\* No calibration lets gate on volume alone, for any judgment, any labels and
\* any rubric: as many different cases as the rubric asks for were judged and
\* labelled, and of those human and judge did not all say what the rubric's
\* metric takes for one and the same.
THEOREM VolumeIsNotEnough == Spec => []EvidenceIsDistinct
<1>1. Init => EvidenceIsDistinct
  BY DEF Init, EvidenceIsDistinct
<1>2. InductiveInvariant /\ ReadsInOrder /\ EvidenceIsDistinct /\ [Next]_vars
      => EvidenceIsDistinct'
  BY EvidenceStaysDistinct
<1> QED
  BY <1>1, <1>2, CalibrationsAreGenuine, FilesAreOfTheirKind, PTL DEF Spec

-----------------------------------------------------------------------------
(* What is at the outputs of a suite.                                      *)

TaskIsRight(place, t, tasks) ==
    /\ place # "idle" => t \in tasks
    /\ place \in {"write", "fill"} => t.kind \in {"judge", "validate", "attach", "compare"}

LEMMA TasksStayRight ==
  ASSUME TypeInvariant, ReadsInOrder, [Next]_vars,
         \A c \in Commands : TaskIsRight(pc[c], task[c], TasksOf[c])
  PROVE  \A c \in Commands : TaskIsRight(pc'[c], task'[c], TasksOf[c])
<1>1. pc \in [Commands -> Places] /\ task = [c \in Commands |-> task[c]]
  BY DEF TypeInvariant, ReadsInOrder
<1>2. ASSUME NEW c \in Commands, NEW t \in TasksOf[c], Start(c, t)
      PROVE  \A d \in Commands : TaskIsRight(pc'[d], task'[d], TasksOf[d])
  <2>1. pc' = [pc EXCEPT ![c] = "read"] /\ task' = [task EXCEPT ![c] = t]
    BY <1>2 DEF Start
  <2>2. \A d \in Commands : /\ d # c => pc'[d] = pc[d] /\ task'[d] = task[d]
                            /\ d = c => pc'[d] = "read" /\ task'[d] = t
    BY <1>1, <2>1
  <2> QED
    BY <2>2 DEF TaskIsRight
<1>3. ASSUME NEW c \in Commands, End(c)
      PROVE  \A d \in Commands : TaskIsRight(pc'[d], task'[d], TasksOf[d])
  <2>1. pc' = [pc EXCEPT ![c] = "idle"] /\ task' = [task EXCEPT ![c] = Nothing]
    BY <1>3 DEF End
  <2>2. \A d \in Commands : /\ d # c => pc'[d] = pc[d] /\ task'[d] = task[d]
                            /\ d = c => pc'[d] = "idle"
    BY <1>1, <2>1
  <2> QED
    BY <2>2 DEF TaskIsRight
<1>4. ASSUME NEW c \in Commands, NEW place, pc' = [pc EXCEPT ![c] = place], UNCHANGED task,
             pc[c] # "idle",
             place \in {"write", "fill"} =>
                task[c].kind \in {"judge", "validate", "attach", "compare"}
      PROVE  \A d \in Commands : TaskIsRight(pc'[d], task'[d], TasksOf[d])
  <2>1. \A d \in Commands : /\ d # c => pc'[d] = pc[d]
                            /\ d = c => pc'[d] = place
    BY <1>1, <1>4
  <2> QED
    BY <1>4, <2>1 DEF TaskIsRight
<1>5. ASSUME UNCHANGED <<pc, task>>
      PROVE  \A d \in Commands : TaskIsRight(pc'[d], task'[d], TasksOf[d])
  BY <1>5
<1>6. ASSUME NEW c \in Commands, Step(c)
      PROVE  \A d \in Commands : TaskIsRight(pc'[d], task'[d], TasksOf[d])
  <2>1. CASE Read(c)
    BY <1>5, <2>1 DEF Read
  <2>2. CASE RunJudgment(c) \/ ValidateCalibration(c) \/ AttachCalibration(c) \/ CompareRuns(c)
    <3>1. \E content : Writes(c, content, "write")
      BY <2>2 DEF RunJudgment, ValidateCalibration, AttachCalibration, CompareRuns
    <3>2. pc[c] = "read" /\ task[c].kind \in {"judge", "validate", "attach", "compare"}
      BY <2>2 DEF RunJudgment, ValidateCalibration, AttachCalibration, CompareRuns, HasRead
    <3> QED
      BY <1>4, <3>1, <3>2 DEF Writes
  <2>3. CASE BuildSuite(c)
    <3>1. pc[c] = "read" /\ pc' = [pc EXCEPT ![c] = "temp_first"] /\ UNCHANGED task
      BY <2>3 DEF BuildSuite, Writes, HasRead
    <3> QED
      BY <1>4, <3>1
  <2>4. CASE OpenOut(c)
    <3>1. pc[c] = "write" /\ pc' = [pc EXCEPT ![c] = "fill"] /\ UNCHANGED task
      BY <2>4 DEF OpenOut
    <3>2. task[c].kind \in {"judge", "validate", "attach", "compare"}
      BY <3>1 DEF TaskIsRight
    <3> QED
      BY <1>4, <3>1, <3>2
  <2>5. CASE Temporaries(c) \/ PlaceFirst(c)
    <3>1. PICK place \in Building :
            pc[c] # "idle" /\ pc' = [pc EXCEPT ![c] = place] /\ UNCHANGED task
      BY <2>5 DEF Temporaries, WriteTemporary, PlaceFirst, Placed, Building
    <3> QED
      BY <1>4, <3>1 DEF Building
  <2>6. CASE RefuseInput(c) \/ RefuseAll(c) \/ CheckGates(c) \/ Fill(c) \/ PlaceSecond(c) \/ PlaceFails(c)
    BY <1>3, <2>6 DEF RefuseInput, RefuseAll, CheckGates, Fill, PlaceSecond, PlaceFails
  <2> QED
    BY <1>6, <2>1, <2>2, <2>3, <2>4, <2>5, <2>6 DEF Step
<1>7. ASSUME NEW c \in Commands, WriteFails(c) \/ Dies(c)
      PROVE  \A d \in Commands : TaskIsRight(pc'[d], task'[d], TasksOf[d])
  BY <1>3, <1>7 DEF WriteFails, Dies
<1>8. ASSUME NEW f \in Files, Edit(f) \/ \E k \in Versions[f] : Replace(f, k)
      PROVE  \A d \in Commands : TaskIsRight(pc'[d], task'[d], TasksOf[d])
  BY <1>5, <1>8 DEF Replace, Edit, command
<1>9. CASE UNCHANGED vars
  BY <1>5, <1>9 DEF vars, command
<1> QED
  BY <1>2, <1>6, <1>7, <1>8, <1>9 DEF Next

\* The parts of the invariant that are about pages.
AllPages ==
    /\ builds \in Nat /\ alone \in BOOLEAN
    /\ \A c \in Commands : pc[c] \in Building => IsPage(draft[c], builds)
    /\ \A f \in Outputs : disk[f] \in {Nothing, Torn} \/ IsPage(disk[f], builds)
OneByOne ==
    /\ \A c, d \in Commands : pc[c] \in Building /\ pc[d] \in Building => c = d
    /\ \A c \in Commands : pc[c] \in Building => BuilderIsAt(c)
    /\ PagesFollowData

LEMMA BuildersParts ==
  BuildersInvariant <=> /\ \A c \in Commands : TaskIsRight(pc[c], task[c], TasksOf[c])
                        /\ AllPages
                        /\ alone => OneByOne
BY DEF BuildersInvariant, TaskIsRight, AllPages, OneByOne

\* A step that is neither about the outputs nor a builder's going on.
LEMMA Elsewhere ==
  ASSUME AllPages, alone => OneByOne, UNCHANGED <<builds, alone>>,
         \A f \in Outputs : disk'[f] = disk[f],
         \A c \in Commands : pc'[c] \in Building => pc'[c] = pc[c] /\ draft'[c] = draft[c]
  PROVE  AllPages' /\ (alone' => OneByOne')
<1>1. AllPages'
  BY DEF AllPages, IsPage
<1>2. ASSUME alone' PROVE OneByOne'
  <2>1. OneByOne
    BY <1>2
  <2>2. /\ disk'["suite.json"] = disk["suite.json"] /\ disk'["suite.html"] = disk["suite.html"]
        /\ disk'[".suite.json.tmp"] = disk[".suite.json.tmp"]
        /\ disk'[".suite.html.tmp"] = disk[".suite.html.tmp"]
    OBVIOUS
  <2>3. \A c \in Commands : pc'[c] \in Building => BuilderIsAt(c)'
    BY <2>1, <2>2 DEF OneByOne, BuilderIsAt
  <2>4. PagesFollowData'
    BY <2>1, <2>2 DEF OneByOne, PagesFollowData
  <2> QED
    BY <2>1, <2>3, <2>4 DEF OneByOne
<1> QED
  BY <1>1, <1>2

LEMMA EndsElsewhere ==
  ASSUME TypeInvariant, NEW c \in Commands, End(c)
  PROVE  \A d \in Commands : pc'[d] \in Building =>
            d # c /\ pc'[d] = pc[d] /\ draft'[d] = draft[d]
BY DEF End, TypeInvariant, Building

LEMMA WritesElsewhere ==
  ASSUME TypeInvariant, NEW c \in Commands, NEW content, Writes(c, content, "write")
  PROVE  \A d \in Commands : pc'[d] \in Building =>
            d # c /\ pc'[d] = pc[d] /\ draft'[d] = draft[d]
BY DEF Writes, TypeInvariant, Building

LEMMA PathsElsewhere ==
  ASSUME TypeInvariant, NEW f, f \notin Outputs, NEW k, disk' = [disk EXCEPT ![f] = k]
  PROVE  \A g \in Outputs : disk'[g] = disk[g]
<1>1. Outputs \subseteq Files
  BY PublicationAssumption
<1> QED
  BY <1>1 DEF TypeInvariant

LEMMA OthersGoOn ==
  ASSUME InductiveInvariant, BuildersInvariant, NEW c \in Commands,
         \/ Read(c) \/ RefuseInput(c) \/ RefuseAll(c) \/ RunJudgment(c) \/ ValidateCalibration(c)
         \/ AttachCalibration(c) \/ CompareRuns(c) \/ CheckGates(c) \/ OpenOut(c) \/ Fill(c)
         \/ Dies(c) \/ \E t \in TasksOf[c] : Start(c, t)
  PROVE  AllPages' /\ (alone' => OneByOne')
<1>1. TypeInvariant
  BY DEF InductiveInvariant
<1>2. UNCHANGED <<builds, alone>>
  BY ZenonT(30) DEF Read, RefuseInput, RefuseAll, RunJudgment, ValidateCalibration, AttachCalibration,
     CompareRuns, CheckGates, OpenOut, Fill, Dies, Start, history
<1>3. \A d \in Commands : pc'[d] \in Building => pc'[d] = pc[d] /\ draft'[d] = draft[d]
  <2>1. CASE Read(c)
    BY <2>1 DEF Read
  <2>2. CASE \E t \in TasksOf[c] : Start(c, t)
    BY <1>1, <2>2 DEF Start, TypeInvariant, Building
  <2>3. CASE RunJudgment(c) \/ ValidateCalibration(c) \/ AttachCalibration(c) \/ CompareRuns(c)
    <3>1. \E content : Writes(c, content, "write")
      BY <2>3 DEF RunJudgment, ValidateCalibration, AttachCalibration, CompareRuns
    <3> QED
      BY <1>1, <3>1, WritesElsewhere
  <2>4. CASE OpenOut(c)
    BY <1>1, <2>4 DEF OpenOut, TypeInvariant, Building
  <2>5. CASE RefuseInput(c) \/ RefuseAll(c) \/ CheckGates(c) \/ Fill(c) \/ Dies(c)
    <3>1. End(c)
      BY <2>5 DEF RefuseInput, RefuseAll, CheckGates, Fill, Dies
    <3> QED
      BY <1>1, <3>1, EndsElsewhere
  <2> QED
    BY <2>1, <2>2, <2>3, <2>4, <2>5
<1>4. \A f \in Outputs : disk'[f] = disk[f]
  <2>1. CASE OpenOut(c) \/ Fill(c)
    <3>1. task[c].out \notin Outputs
      <4>1. pc[c] \in {"write", "fill"}
        BY <2>1 DEF OpenOut, Fill
      <4>2. /\ task[c] \in TasksOf[c]
            /\ task[c].kind \in {"judge", "validate", "attach", "compare"}
        BY <4>1 DEF BuildersInvariant
      <4> QED
        BY <4>2, OutputsAssumption
    <3>2. PICK f : f = task[c].out
      OBVIOUS
    <3>3. \E k : disk' = [disk EXCEPT ![f] = k]
      BY <2>1, <3>2 DEF OpenOut, Fill
    <3> QED
      BY <1>1, <3>1, <3>2, <3>3, PathsElsewhere
  <2>2. CASE UNCHANGED disk
    BY <2>2
  <2> QED
    BY <2>1, <2>2 DEF Read, RefuseInput, RefuseAll, RunJudgment, ValidateCalibration,
       AttachCalibration, CompareRuns, CheckGates, Dies, Start
<1> QED
  BY <1>2, <1>3, <1>4, BuildersParts, Elsewhere

LEMMA OperatorsElsewhere ==
  ASSUME InductiveInvariant, BuildersInvariant, NEW f \in Files,
         Edit(f) \/ \E k \in Versions[f] : Replace(f, k)
  PROVE  AllPages' /\ (alone' => OneByOne')
<1>1. TypeInvariant /\ UNCHANGED <<builds, alone, pc, draft>>
  BY DEF InductiveInvariant, Edit, Replace, history, command
<1>2. f \notin Outputs
  <2>1. CASE \E k \in Versions[f] : Replace(f, k)
    BY <2>1, OutputsAssumption
  <2>2. CASE Edit(f)
    <3>1. disk[f] \notin {Nothing, Torn} /\ Edited(disk[f]) # {}
      BY <2>2 DEF Edit
    <3>2. disk[f].kind # "page"
      BY <3>1 DEF Edited
    <3> QED
      BY <3>1, <3>2 DEF BuildersInvariant, IsPage
  <2> QED
    BY <2>1, <2>2
<1>3. \E k : disk' = [disk EXCEPT ![f] = k]
  BY DEF Edit, Replace
<1>4. \A g \in Outputs : disk'[g] = disk[g]
  BY <1>1, <1>2, <1>3, PathsElsewhere
<1> QED
  BY <1>1, <1>4, BuildersParts, Elsewhere

\* A suite is assembled: a newer page than any, in the hands of its builder.
LEMMA BuildingBegins ==
  ASSUME InductiveInvariant, BuildersInvariant, NEW c \in Commands, BuildSuite(c)
  PROVE  AllPages' /\ (alone' => OneByOne')
<1>1. PICK page : Writes(c, [kind |-> "page", serial |-> builds, page |-> page], "temp_first")
  BY DEF BuildSuite
<1>2. PICK k : k = [kind |-> "page", serial |-> builds, page |-> page]
  OBVIOUS
<1>3. k.kind = "page" /\ k.serial = builds
  BY <1>2
<1>4. \A d \in Commands : /\ d # c => pc'[d] = pc[d] /\ draft'[d] = draft[d]
                          /\ d = c => pc'[d] = "temp_first" /\ draft'[d] = k
  BY <1>1, <1>2 DEF Writes, InductiveInvariant, TypeInvariant
<1>5. /\ builds' = builds + 1 /\ UNCHANGED disk /\ builds \in Nat /\ alone \in BOOLEAN
      /\ alone' = (alone /\ \A d \in Commands : pc[d] \notin Building)
  BY DEF BuildSuite, BuildersInvariant
<1>6. \A x : IsPage(x, builds) => IsPage(x, builds')
  BY <1>5 DEF IsPage
<1>7. IsPage(k, builds')
  BY <1>3, <1>5 DEF IsPage
<1>8. AllPages'
  <2>1. \A d \in Commands : pc'[d] \in Building => IsPage(draft'[d], builds')
    <3>1. \A d \in Commands : pc[d] \in Building => IsPage(draft[d], builds)
      BY DEF BuildersInvariant
    <3> QED
      BY <1>4, <1>6, <1>7, <3>1
  <2>2. \A f \in Outputs : disk'[f] \in {Nothing, Torn} \/ IsPage(disk'[f], builds')
    BY <1>5, <1>6 DEF BuildersInvariant
  <2> QED
    BY <1>5, <2>1, <2>2 DEF AllPages
<1>9. ASSUME alone' PROVE OneByOne'
  <2>1. alone /\ \A d \in Commands : pc[d] \notin Building
    BY <1>5, <1>9
  <2>2. \A d \in Commands : pc'[d] \in Building => d = c
    <3>1. \A d \in Commands : pc[d] \notin Building
      BY <2>1
    <3>2. \A d \in Commands : d # c => pc'[d] = pc[d]
      BY <1>4
    <3> QED
      BY <3>1, <3>2
  <2>3. \A d \in Commands : pc'[d] \in Building => BuilderIsAt(d)'
    BY <1>3, <1>4, <1>5, <2>2 DEF BuilderIsAt
  <2>4. PagesFollowData'
    BY <1>5, <2>1 DEF BuildersInvariant, PagesFollowData
  <2> QED
    BY <2>2, <2>3, <2>4 DEF OneByOne
<1> QED
  BY <1>8, <1>9

\* A builder goes on: its page is in one more place, or it is done.
LEMMA BuilderGoesOn ==
  ASSUME InductiveInvariant, BuildersInvariant, NEW c \in Commands, pc[c] \in Building,
         UNCHANGED <<builds, alone>>,
         \A f \in Outputs : disk'[f] \in {disk[f], draft[c], Nothing, Torn}
                                        \cup {disk[g] : g \in Outputs},
         \A d \in Commands : d # c => pc'[d] = pc[d],
         \A d \in Commands : pc'[d] \in Building => draft'[d] = draft[d],
         alone /\ pc'[c] \in Building => BuilderIsAt(c)',
         alone => PagesFollowData'
  PROVE  AllPages' /\ (alone' => OneByOne')
<1>1. \A x : IsPage(x, builds) => IsPage(x, builds')
  BY DEF IsPage
<1>2. IsPage(draft[c], builds)
  BY DEF BuildersInvariant
<1>3. AllPages'
  <2>1. \A d \in Commands : pc'[d] \in Building => IsPage(draft'[d], builds')
    BY <1>1, <1>2 DEF BuildersInvariant
  <2>2. \A f \in Outputs : disk'[f] \in {Nothing, Torn} \/ IsPage(disk'[f], builds)
    <3>1. \A g \in Outputs : disk[g] \in {Nothing, Torn} \/ IsPage(disk[g], builds)
      BY DEF BuildersInvariant
    <3> QED
      BY <1>2, <3>1
  <2>3. \A f \in Outputs : disk'[f] \in {Nothing, Torn} \/ IsPage(disk'[f], builds')
    BY <1>1, <2>2
  <2> QED
    BY <2>1, <2>3 DEF AllPages, BuildersInvariant
<1>4. ASSUME alone' PROVE OneByOne'
  <2>1. alone /\ \A d \in Commands : pc[d] \in Building => d = c
    BY <1>4 DEF BuildersInvariant
  <2>2. \A d \in Commands : pc'[d] \in Building => d = c
    BY <2>1
  <2> QED
    BY <2>1, <2>2 DEF OneByOne
<1> QED
  BY <1>3, <1>4

LEMMA OutputsAreFiles ==
  ASSUME TypeInvariant
  PROVE  /\ Outputs \subseteq Files /\ disk = [f \in Files |-> disk[f]]
         /\ Temp["suite.json"] = ".suite.json.tmp" /\ Temp["suite.html"] = ".suite.html.tmp"
         /\ Contents[1] = "suite.json" /\ Contents[2] = "suite.html"
BY PublicationAssumption DEF TypeInvariant, Temp, Contents

LEMMA PagesAreWritten ==
  ASSUME InductiveInvariant, BuildersInvariant, NEW c \in Commands, Temporaries(c)
  PROVE  AllPages' /\ (alone' => OneByOne')
<1>1. TypeInvariant
  BY DEF InductiveInvariant
<1>2. UNCHANGED <<builds, alone, draft>>
  BY DEF Temporaries, WriteTemporary, history
<1>3. CASE WriteTemporary(c, "temp_first", Contents[1], "temp_second")
  <2>1. /\ pc[c] = "temp_first" /\ pc' = [pc EXCEPT ![c] = "temp_second"]
        /\ disk' = [disk EXCEPT ![".suite.json.tmp"] = draft[c]]
    BY <1>1, <1>3, OutputsAreFiles DEF WriteTemporary
  <2>2. /\ disk'[".suite.json.tmp"] = draft[c]
        /\ disk'["suite.json"] = disk["suite.json"] /\ disk'["suite.html"] = disk["suite.html"]
        /\ \A f \in Outputs : disk'[f] \in {disk[f], draft[c]}
    BY <1>1, <2>1, OutputsAreFiles
  <2>3. pc'[c] = "temp_second" /\ \A d \in Commands : d # c => pc'[d] = pc[d]
    BY <1>1, <2>1 DEF TypeInvariant
  <2>4. pc[c] \in Building
    BY <2>1 DEF Building
  <2>5. alone => BuilderIsAt(c)'
    BY <1>2, <2>2, <2>3, <2>4 DEF BuildersInvariant, BuilderIsAt
  <2>6. alone => PagesFollowData'
    BY <2>2 DEF BuildersInvariant, PagesFollowData
  <2> QED
    BY <1>2, <2>2, <2>3, <2>4, <2>5, <2>6, BuilderGoesOn
<1>4. CASE WriteTemporary(c, "temp_second", Contents[2], "place_first")
  <2>1. /\ pc[c] = "temp_second" /\ pc' = [pc EXCEPT ![c] = "place_first"]
        /\ disk' = [disk EXCEPT ![".suite.html.tmp"] = draft[c]]
    BY <1>1, <1>4, OutputsAreFiles DEF WriteTemporary
  <2>2. /\ disk'[".suite.html.tmp"] = draft[c]
        /\ disk'[".suite.json.tmp"] = disk[".suite.json.tmp"]
        /\ disk'["suite.json"] = disk["suite.json"] /\ disk'["suite.html"] = disk["suite.html"]
        /\ \A f \in Outputs : disk'[f] \in {disk[f], draft[c]}
    BY <1>1, <2>1, OutputsAreFiles
  <2>3. pc'[c] = "place_first" /\ \A d \in Commands : d # c => pc'[d] = pc[d]
    BY <1>1, <2>1 DEF TypeInvariant
  <2>4. pc[c] \in Building
    BY <2>1 DEF Building
  <2>5. alone => BuilderIsAt(c)'
    BY <1>2, <2>1, <2>2, <2>3, <2>4 DEF BuildersInvariant, BuilderIsAt
  <2>6. alone => PagesFollowData'
    BY <2>2 DEF BuildersInvariant, PagesFollowData
  <2> QED
    BY <1>2, <2>2, <2>3, <2>4, <2>5, <2>6, BuilderGoesOn
<1> QED
  BY <1>3, <1>4 DEF Temporaries

\* The data is put in place: it is newer than any page.
LEMMA DataIsPlaced ==
  ASSUME InductiveInvariant, BuildersInvariant, NEW c \in Commands, PlaceFirst(c)
  PROVE  AllPages' /\ (alone' => OneByOne')
<1>1. TypeInvariant
  BY DEF InductiveInvariant
<1>2. UNCHANGED <<builds, alone, draft>>
  BY DEF PlaceFirst, history
<1>3. /\ pc[c] = "place_first" /\ pc' = [pc EXCEPT ![c] = "place_second"]
      /\ disk' = [disk EXCEPT !["suite.json"] = disk[".suite.json.tmp"],
                             ![".suite.json.tmp"] = Nothing]
  BY <1>1, OutputsAreFiles DEF PlaceFirst, Placed
<1>4. /\ disk'["suite.json"] = disk[".suite.json.tmp"]
      /\ disk'[".suite.html.tmp"] = disk[".suite.html.tmp"]
      /\ disk'["suite.html"] = disk["suite.html"]
      /\ \A f \in Outputs : disk'[f] \in {disk[f], disk[".suite.json.tmp"], Nothing}
  BY <1>1, <1>3, OutputsAreFiles
<1>5. pc'[c] = "place_second" /\ \A d \in Commands : d # c => pc'[d] = pc[d]
  BY <1>1, <1>3 DEF TypeInvariant
<1>6. pc[c] \in Building
  BY <1>3 DEF Building
<1>7. alone => disk[".suite.json.tmp"] = draft[c] /\ disk[".suite.html.tmp"] = draft[c]
  BY <1>3, <1>6 DEF BuildersInvariant, BuilderIsAt
<1>8. alone => BuilderIsAt(c)'
  BY <1>2, <1>4, <1>5, <1>6, <1>7 DEF BuildersInvariant, BuilderIsAt
<1>9. alone => PagesFollowData'
  <2> SUFFICES ASSUME alone, disk["suite.html"] \notin {Nothing, Torn}
               PROVE  /\ draft[c] \notin {Nothing, Torn}
                      /\ disk["suite.html"].serial <= draft[c].serial
    BY <1>4, <1>7 DEF PagesFollowData
  <2>1. IsPage(draft[c], builds) /\ draft[c].serial = builds - 1 /\ builds \in Nat
    BY <1>6 DEF BuildersInvariant, BuilderIsAt
  <2>2. IsPage(disk["suite.html"], builds)
    BY DEF BuildersInvariant
  <2> QED
    BY <2>1, <2>2 DEF IsPage, Nothing, Torn
<1> QED
  BY <1>2, <1>4, <1>5, <1>6, <1>8, <1>9, BuilderGoesOn

\* The page is put in place: the data there is its own.
LEMMA PageIsPlaced ==
  ASSUME InductiveInvariant, BuildersInvariant, NEW c \in Commands, PlaceSecond(c)
  PROVE  AllPages' /\ (alone' => OneByOne')
<1>1. TypeInvariant
  BY DEF InductiveInvariant
<1>2. UNCHANGED <<builds, alone>> /\ End(c)
  BY DEF PlaceSecond, history
<1>3. /\ pc[c] = "place_second"
      /\ disk' = [disk EXCEPT !["suite.html"] = disk[".suite.html.tmp"],
                             ![".suite.html.tmp"] = Nothing]
  BY <1>1, OutputsAreFiles DEF PlaceSecond, Placed
<1>4. /\ disk'["suite.json"] = disk["suite.json"]
      /\ disk'["suite.html"] = disk[".suite.html.tmp"]
      /\ \A f \in Outputs : disk'[f] \in {disk[f], disk[".suite.html.tmp"], Nothing}
  BY <1>1, <1>3, OutputsAreFiles
<1>5. /\ pc'[c] \notin Building /\ \A d \in Commands : d # c => pc'[d] = pc[d]
      /\ \A d \in Commands : pc'[d] \in Building => draft'[d] = draft[d]
  BY <1>1, <1>2 DEF End, TypeInvariant, Building
<1>6. pc[c] \in Building
  BY <1>3 DEF Building
<1>7. alone => disk["suite.json"] = draft[c] /\ disk[".suite.html.tmp"] = draft[c]
  BY <1>3, <1>6 DEF BuildersInvariant, BuilderIsAt
<1>8. alone => PagesFollowData'
  <2>1. IsPage(draft[c], builds)
    BY <1>6 DEF BuildersInvariant
  <2> QED
    BY <1>4, <1>7, <2>1 DEF PagesFollowData, IsPage
<1> QED
  BY <1>2, <1>4, <1>5, <1>6, <1>8, BuilderGoesOn

\* A builder that gives up leaves what is in place alone.
LEMMA BuilderGivesUp ==
  ASSUME InductiveInvariant, BuildersInvariant, NEW c \in Commands, PlaceFails(c) \/ WriteFails(c)
  PROVE  AllPages' /\ (alone' => OneByOne')
<1>1. TypeInvariant
  BY DEF InductiveInvariant
<1>2. UNCHANGED <<builds, alone>> /\ End(c)
  BY DEF PlaceFails, WriteFails, history
<1>3. /\ pc[c] \in Building
      /\ \/ disk' = [disk EXCEPT ![".suite.json.tmp"] = Nothing, ![".suite.html.tmp"] = Nothing]
         \/ disk' = [disk EXCEPT ![".suite.json.tmp"] = Torn]
         \/ disk' = [disk EXCEPT ![".suite.json.tmp"] = Nothing, ![".suite.html.tmp"] = Torn]
  BY <1>1, OutputsAreFiles DEF PlaceFails, WriteFails, Building
<1>4. /\ disk'["suite.json"] = disk["suite.json"] /\ disk'["suite.html"] = disk["suite.html"]
      /\ \A f \in Outputs : disk'[f] \in {disk[f], Nothing, Torn}
  BY <1>1, <1>3, OutputsAreFiles
<1>5. /\ pc'[c] \notin Building /\ \A d \in Commands : d # c => pc'[d] = pc[d]
      /\ \A d \in Commands : pc'[d] \in Building => draft'[d] = draft[d]
  BY <1>1, <1>2 DEF End, TypeInvariant, Building
<1>6. alone => PagesFollowData'
  BY <1>4 DEF BuildersInvariant, PagesFollowData
<1> QED
  BY <1>2, <1>3, <1>4, <1>5, <1>6, BuilderGoesOn

LEMMA BuildersStayInOrder ==
  ASSUME InductiveInvariant, ReadsInOrder, BuildersInvariant, [Next]_vars
  PROVE  BuildersInvariant'
<1>1. \A c \in Commands : TaskIsRight(pc'[c], task'[c], TasksOf[c])
  BY BuildersParts, TasksStayRight DEF InductiveInvariant
<1>2. AllPages' /\ (alone' => OneByOne')
  <2>1. ASSUME NEW c \in Commands, Step(c) \/ WriteFails(c) \/ Dies(c)
               \/ \E t \in TasksOf[c] : Start(c, t)
        PROVE  AllPages' /\ (alone' => OneByOne')
    BY <2>1, OthersGoOn, BuildingBegins, PagesAreWritten, DataIsPlaced, PageIsPlaced,
       BuilderGivesUp, Zenon DEF Step
  <2>2. ASSUME NEW f \in Files, Edit(f) \/ \E k \in Versions[f] : Replace(f, k)
        PROVE  AllPages' /\ (alone' => OneByOne')
    BY <2>2, OperatorsElsewhere
  <2>3. CASE UNCHANGED vars
    <3>1. UNCHANGED <<builds, alone, disk, pc, draft>>
      BY <2>3 DEF vars, command, history
    <3> QED
      BY <3>1, BuildersParts, Elsewhere
  <2> QED
    BY <2>1, <2>2, <2>3 DEF Next
<1> QED
  BY <1>1, <1>2 DEF BuildersInvariant, TaskIsRight, AllPages, OneByOne

\* Builders that work one by one keep the page behind the data, whatever else
\* is read, written, edited or dies at the same time.
THEOREM BuildersInvariantHolds == Spec => []BuildersInvariant
<1>1. Init => BuildersInvariant
  <2> SUFFICES ASSUME Init PROVE BuildersInvariant
    OBVIOUS
  <2>1. /\ \A c \in Commands : pc[c] = "idle"
        /\ \A f \in Outputs : disk[f] = Nothing
        /\ builds = 0 /\ alone = TRUE
    BY OutputsAssumption DEF Init
  <2> QED
    BY <2>1 DEF BuildersInvariant, PagesFollowData, Building, BuilderIsAt
<1>2. InductiveInvariant /\ ReadsInOrder /\ BuildersInvariant /\ [Next]_vars => BuildersInvariant'
  BY BuildersStayInOrder
<1> QED
  BY <1>1, <1>2, CalibrationsAreGenuine, FilesAreOfTheirKind, PTL DEF Spec

\* The page in place is never newer than the data in place, as long as no two
\* builders worked at once.
THEOREM PagesStayBehindData == Spec => []PagesFollowData
<1>1. BuildersInvariant => PagesFollowData
  BY DEF BuildersInvariant, PagesFollowData
<1> QED
  BY <1>1, BuildersInvariantHolds, PTL
=============================================================================
