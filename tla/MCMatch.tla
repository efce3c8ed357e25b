------------------------------- MODULE MCMatch -------------------------------
(***************************************************************************)
(* Small instances of what pkg/match and Client.Search do: a behaviour is  *)
(* one call, of Search, of Parse's loop or of levenshtein.                 *)
(***************************************************************************)
EXTENDS Search, Parsing, Levenshtein, TLC

CONSTANTS I1, I2

Strobe == <<"strobe">>
Dead   == <<"deadmau5">>
Kaskade == <<"kaskade">>
Mau    == <<"mau5">>
Joe    == <<"joe", "silva">>
Joey   == <<"joey", "silva">>
MCNames == {<<>>, Strobe, Dead, Kaskade, Mau, Joe, Joey}

\* Pairs of different names that have something in common.
Alike == ({Dead, Mau} :> 500) @@ ({Joe, Joey} :> 900) @@ ({Dead, Kaskade} :> 680)
MCSimilarity(x, y) ==
  IF x = <<>> \/ y = <<>> THEN 0 ELSE IF x = y THEN 1000
  ELSE IF {x, y} \in DOMAIN Alike THEN Alike[{x, y}] ELSE 100

Like(artists, cut, dur, isrc) ==
  [artists |-> artists, title |-> Strobe, version |-> cut, dur |-> dur,
   isrc |-> isrc]
Track(id, artists, cut, dur, isrc) ==
  [id |-> id, artists |-> artists, title |-> Strobe, version |-> cut,
   dur |-> dur, isrc |-> isrc]

MCWanted ==
  {Like({Dead}, Version("extended", <<>>), 600, I1),
   Like({Dead, Kaskade}, Version("original", <<>>), 0, NoCode),
   Like({Dead}, Version("remix", Joe), 240, NoCode),
   [Like({Dead}, Unknown, 240, NoCode) EXCEPT !.title = <<>>]}

MCCatalogue ==
  {Track(1, {Dead}, Version("extended", <<>>), 602, I1),
   Track(2, {Dead}, Version("radio", <<>>), 210, I2),
   Track(3, {Dead}, Unknown, 0, NoCode),
   Track(4, {Mau}, Version("extended", <<>>), 600, NoCode),
   Track(5, {Dead}, Version("remix", <<>>), 240, NoCode),
   Track(6, {Dead}, Version("remix", Joey), 260, NoCode),
   Track(7, {Kaskade}, Unknown, 650, I2)}

MatchInit == \/ SearchInit /\ ParseIdle /\ LevIdle
             \/ SearchIdle /\ ParseInit /\ LevIdle
             \/ SearchIdle /\ ParseIdle /\ LevInit
MatchNext == \/ SearchNext /\ UNCHANGED <<parseVars, levVars>>
             \/ Consider /\ UNCHANGED <<searchVars, levVars>>
             \/ a # <<>> /\ LevNext
                /\ UNCHANGED <<searchVars, parseVars>>
MatchSpec == MatchInit /\ [][MatchNext]_<<searchVars, parseVars, levVars>>
SearchOnly == SearchInit /\ ParseIdle /\ LevIdle
              /\ [][SearchNext /\ UNCHANGED <<parseVars, levVars>>]_searchVars
=============================================================================
