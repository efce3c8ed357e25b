------------------------------- MODULE Parsing -------------------------------
(***************************************************************************)
(* The loop at the end of match.Parse that settles a title's version: one  *)
(* step for each descriptor, those of a dash suffix first, then the        *)
(* parenthesised ones from left to right.                                  *)
(***************************************************************************)
EXTENDS Matching

CONSTANTS
  Vocabulary,  \* the words descriptors are made of
  MaxWords,    \* a descriptor has at most so many words
  MaxDescs     \* and a title at most so many descriptors

ASSUME ParseConstants == MaxWords \in Nat /\ MaxDescs \in Nat

Descriptors == UNION {[1..n -> Vocabulary] : n \in 1..MaxWords}
Texts == UNION {[1..n -> Descriptors] : n \in 1..MaxDescs}

VARIABLES
  text,     \* the descriptors
  read,     \* how many of them have been considered
  version   \* t.Version

parseVars == <<text, read, version>>

ParseIdle == text = <<>> /\ read = 0 /\ version = Unknown
ParseInit == text \in Texts /\ read = 0 /\ version = Unknown

Consider ==
  /\ read < Len(text)
  /\ read' = read + 1
  /\ version' = Prefer(version, ClassifyVersion(text[read']))
  /\ UNCHANGED text

ParseSpec == ParseInit /\ [][Consider]_parseVars

-----------------------------------------------------------------------------
IsRemix(words) == \E n \in DOMAIN words : words[n] \in RemixMarkers

\* A remix descriptor decides, whatever else the title says, or else the first
\* descriptor that says anything: "classifying those by the modifier loses
\* both the kind and the remixer name" (normalize.go, remixMarkers).
RemixDecides ==
  LET seen  == 1..read
      remix == {n \in seen : IsRemix(text[n])}
      says  == {n \in seen : ClassifyVersion(text[n]).kind # "unknown"}
  IN /\ remix # {} =>
          version.kind = "remix" /\ version = ClassifyVersion(text[Max(remix)])
     /\ remix = {} /\ says # {} => version = ClassifyVersion(text[Min(says)])
     /\ says = {} => version = Unknown

\* The words before the last marker of a descriptor.
Before(words) ==
  SubSeq(words, 1, Max({n \in DOMAIN words : words[n] \in RemixMarkers}) - 1)

\* p and q agree, up to what either says at its end of how the remix was cut.
SameButForTheCut(p, q) ==
  \E n \in 0..Len(p) :
    /\ n <= Len(q) /\ SubSeq(p, 1, n) = SubSeq(q, 1, n)
    /\ \A k \in (n + 1)..Len(p) : p[k] \in Modifiers \cup RemixMarkers
    /\ \A k \in (n + 1)..Len(q) : q[k] \in Modifiers \cup RemixMarkers

\* "Joe Silva Extended Remix" and "Joe Silva Remix" name one remixer, and
\* "Radio Slave Remix" another than "Slave Remix" (normalize.go, remixerName,
\* versionModifiers).
RemixersAreTold ==
  \A i, j \in 1..read :
    IsRemix(text[i]) /\ IsRemix(text[j]) =>
      (ClassifyVersion(text[i]).remixer = ClassifyVersion(text[j]).remixer
         <=> SameButForTheCut(Before(text[i]), Before(text[j])))
=============================================================================
