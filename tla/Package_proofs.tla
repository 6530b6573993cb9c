--------------------------- MODULE Package_proofs ---------------------------
(***************************************************************************)
(* Theorems about Package, for any packages, names and symbols, whichever  *)
(* packages are locked and whichever may use which.                        *)
(*                                                                         *)
(* IInv is the inductive invariant.  It says of the symbol a package has   *)
(* of its own for a name, Own(p, n), what Unambiguous and SymbolsPresent   *)
(* say of the sets Present and Inherited.  Programs that unexport another  *)
(* symbol than the external one break it: what rests on it assumes         *)
(* ~UnexportsAny.  For any program, WeakInv holds.                         *)
(*                                                                         *)
(* The last part follows one EXPORT or USE-PACKAGE through the restarts    *)
(* its user chooses: CallInv is what holds while it is in progress.        *)
(***************************************************************************)
EXTENDS Package, TLAPS

\* The symbol of a name that is present in p.
Own(p, n) == IF external[p][n] # NoSymbol THEN external[p][n] ELSE internal[p][n]

Typed == /\ made \subseteq Symbols /\ live \subseteq Packages
         /\ internal \in Tables /\ external \in Tables
         /\ shadowing \in [Packages -> SUBSET made]
         /\ uses \in Links /\ usedBy \in Links
         /\ home \in [Symbols -> live \cup {NoPackage}]
         /\ call.left \subseteq live \X Names

\* A call in progress is for a package that lives.
CallOK == \/ call = NoCall
          \/ call.op = "export" /\ call.in \in live /\ call.of \in made
          \/ call.op = "use" /\ call.in \in live /\ call.of \in live

Named == \A p \in Packages, n \in Names :
           /\ external[p][n] # NoSymbol => NameOf[external[p][n]] = n
           /\ internal[p][n] # NoSymbol => NameOf[internal[p][n]] = n

\* Unambiguous, a symbol at a time.
OneTable == \A p \in Packages, n \in Names : external[p][n] = NoSymbol \/ internal[p][n] = NoSymbol
OneMeaning ==
  \A p \in Packages, n \in Names :
    \/ Own(p, n) \in shadowing[p]
    \/ Own(p, n) # NoSymbol /\ \A q \in uses[p] : external[q][n] \in {Own(p, n), NoSymbol}
    \/ Own(p, n) = NoSymbol /\ \A q, r \in uses[p] :
         external[q][n] # NoSymbol /\ external[r][n] # NoSymbol => external[q][n] = external[r][n]

\* SymbolsPresent, too.
ShadowsPresent == \A p \in Packages : \A s \in shadowing[p] : Own(p, NameOf[s]) = s
HomesPresent == \A s \in Symbols : home[s] # NoPackage => Own(home[s], NameOf[s]) = s

IInv == /\ Typed /\ CallOK /\ Named /\ UsesMirror
        /\ OneTable /\ OneMeaning
        /\ ShadowsPresent /\ HomesPresent

\* The empty entry of a table is not a symbol.
LEMMA NoSymbolOutside == \A s \in Symbols : s # NoSymbol
BY PackageAssumption

\* What is present in p: what its two tables have for the name.
LEMMA PresentAt == ASSUME NEW p, NEW n, NEW s
                   PROVE  s \in Present(p, n) <=> s # NoSymbol /\ s \in {external[p][n], internal[p][n]}
BY DEF Present, Slot

\* What p inherits: what the packages it uses export.
LEMMA InheritedAt == ASSUME NEW p, NEW n, NEW s
                     PROVE  s \in Inherited(p, n) <=> s # NoSymbol /\ \E q \in uses[p] : external[q][n] = s
BY DEF Inherited, Slot

\* What findSymbol gives: the symbol of p itself, or one it inherits.
LEMMA FoundAt == ASSUME NEW p, NEW n, NEW s
                 PROVE  s \in Found(p, n) <=> /\ s # NoSymbol
                                              /\ IF Own(p, n) # NoSymbol THEN s = Own(p, n)
                                                 ELSE \E q \in uses[p] : external[q][n] = s
BY InheritedAt DEF Found, Slot, Own

\* The inductive invariant implies those TLC checks.
LEMMA Consequences == ASSUME IInv PROVE TypeOK /\ Unambiguous /\ SymbolsPresent
<1>1. TypeOK
  BY PresentAt DEF IInv, Typed, Named, TypeOK
<1>2. Unambiguous
  <2> SUFFICES ASSUME NEW p \in Packages, NEW n \in Names
               PROVE  /\ Slot(external, p, n) = {} \/ Slot(internal, p, n) = {}
                      /\ Present(p, n) = {} => AtMostOne(Inherited(p, n))
                      /\ Present(p, n) # {} => \/ Inherited(p, n) \subseteq Present(p, n)
                                               \/ Present(p, n) \subseteq shadowing[p]
    BY DEF Unambiguous
  <2>1. Slot(external, p, n) = {} \/ Slot(internal, p, n) = {}
    BY DEF IInv, OneTable, Slot
  <2>2. \A s : s \in Present(p, n) <=> s # NoSymbol /\ s = Own(p, n)
    BY PresentAt DEF IInv, OneTable, Own
  <2>3. Own(p, n) \in shadowing[p] => Own(p, n) # NoSymbol
    BY NoSymbolOutside DEF IInv, Typed
  <2>4. QED
    BY <2>1, <2>2, <2>3, InheritedAt DEF IInv, OneMeaning, AtMostOne
<1>3. SymbolsPresent
  <2>1. ASSUME NEW p \in Packages, NEW s \in Symbols, Own(p, NameOf[s]) = s
        PROVE  s \in Present(p, NameOf[s])
    BY <2>1, PresentAt, NoSymbolOutside DEF Own
  <2>2. QED
    BY <2>1, NoSymbolOutside DEF IInv, Typed, ShadowsPresent, HomesPresent, SymbolsPresent
<1>4. QED
  BY <1>1, <1>2, <1>3

\* At the beginning all tables are empty.
LEMMA InitIInv == Init => IInv
BY PackageAssumption
   DEF Init, IInv, Typed, CallOK, Named, UsesMirror, OneTable, OneMeaning, ShadowsPresent,
       HomesPresent, Own, Tables, Links, NoCall

-----------------------------------------------------------------------------
\* A new symbol s with a name n that p has none of its own for: it becomes a
\* shadowing symbol, or the name means nothing in p.
LEMMA CreateStep ==
  ASSUME IInv, NEW p \in live, NEW n \in Names, NEW s \in Fresh(n), Create(p, s),
         Own(p, n) = NoSymbol,
         \/ shadowing' = [shadowing EXCEPT ![p] = @ \cup {s}]
         \/ shadowing' = shadowing /\ \A q \in uses[p] : external[q][n] = NoSymbol,
         UNCHANGED <<external, links, live, call>>
  PROVE  IInv'
<1> USE DEF links
<1>1. p \in Packages /\ s \in Symbols /\ s \notin made /\ NameOf[s] = n /\ s # NoSymbol
  BY PackageAssumption DEF Fresh, IInv, Typed
<1>2. /\ internal' \in Tables' /\ external' \in Tables'
      /\ \A q \in Packages, m \in Names :
           internal'[q][m] = IF q = p /\ m = n THEN s ELSE internal[q][m]
  <2> DEFINE S == made' \cup {NoSymbol}
  <2>1. internal \in [Packages -> [Names -> S]] /\ external' \in [Packages -> [Names -> S]]
    BY DEF IInv, Typed, Tables, Create
  <2>2. s \in S /\ internal' = With(internal, p, s)
    BY DEF Create
  <2> HIDE DEF S
  <2>3. /\ With(internal, p, s) \in [Packages -> [Names -> S]]
        /\ \A q \in Packages, m \in Names :
             With(internal, p, s)[q][m] = IF q = p /\ m = NameOf[s] THEN s ELSE internal[q][m]
    BY <1>1, <2>1, <2>2, PackageAssumption DEF With
  <2>4. QED
    BY <1>1, <2>1, <2>2, <2>3 DEF Tables, S
<1>3. \A q \in Packages, m \in Names :
        Own(q, m)' = IF q = p /\ m = n THEN s ELSE Own(q, m)
  BY <1>1, <1>2 DEF Own
<1>4. Typed'
  BY <1>1, <1>2 DEF IInv, Typed, Links, Create
<1>5. CallOK' /\ UsesMirror'
  BY DEF IInv, CallOK, UsesMirror, Create
<1>6. Named'
  BY <1>1, <1>2 DEF IInv, Named
<1>7. OneTable'
  BY <1>1, <1>2 DEF IInv, OneTable, Own
<1>8. OneMeaning'
  BY <1>1, <1>2, <1>3 DEF IInv, Typed, OneMeaning
<1>9. ShadowsPresent'
  <2>1. \A q \in Packages : \A t \in shadowing'[q] : t \in shadowing[q] \/ (q = p /\ t = s)
    BY <1>1 DEF IInv, Typed
  <2>2. \A q \in Packages : \A t \in shadowing[q] : t \in Symbols /\ t # s /\ Own(q, NameOf[t]) = t
    BY <1>1 DEF IInv, Typed, ShadowsPresent
  <2>3. Own(p, n)' = s
    BY <1>1, <1>3
  <2>4. \A q \in Packages, t \in Symbols : Own(q, NameOf[t]) = t => Own(q, NameOf[t])' = t
    BY <1>1, <1>3, NoSymbolOutside, PackageAssumption
  <2>5. QED
    BY <1>1, <2>1, <2>2, <2>3, <2>4 DEF ShadowsPresent
<1>10. HomesPresent'
  <2>1. \A t \in Symbols : home'[t] = IF t = s THEN p ELSE home[t]
    BY <1>1 DEF IInv, Typed, Create
  <2>2. \A t \in Symbols : home[t] # NoPackage => home[t] \in Packages
    BY DEF IInv, Typed
  <2>3. Own(p, n)' = s
    BY <1>1, <1>3
  <2>4. \A q \in Packages, t \in Symbols : Own(q, NameOf[t]) = t => Own(q, NameOf[t])' = t
    BY <1>1, <1>3, NoSymbolOutside, PackageAssumption
  <2>5. QED
    BY <1>1, <2>1, <2>2, <2>3, <2>4 DEF IInv, HomesPresent
<1>11. QED
  BY <1>4, <1>5, <1>6, <1>7, <1>8, <1>9, <1>10 DEF IInv

\* Under IInv at most one symbol of a name is present in p: Own(p, n).
LEMMA OwnAt ==
  ASSUME IInv, NEW p \in Packages, NEW n \in Names
  PROVE  /\ Own(p, n) \in made \cup {NoSymbol}
         /\ Own(p, n) # NoSymbol => Own(p, n) \in Symbols /\ NameOf[Own(p, n)] = n
         /\ Own(p, n) = NoSymbol => external[p][n] = NoSymbol /\ internal[p][n] = NoSymbol
         /\ \A s : s \in Present(p, n) <=> s # NoSymbol /\ s = Own(p, n)
<1>1. external[p][n] \in made \cup {NoSymbol} /\ internal[p][n] \in made \cup {NoSymbol}
  BY DEF IInv, Typed, Tables
<1>2. made \subseteq Symbols
  BY DEF IInv, Typed
<1>3. \A s : s \in Present(p, n) <=> s # NoSymbol /\ s = Own(p, n)
  BY PresentAt DEF IInv, OneTable, Own
<1>4. QED
  BY <1>1, <1>2, <1>3 DEF IInv, Named, Own

\* findSymbol gives symbols there are.
LEMMA FoundInMade ==
  ASSUME IInv, NEW p \in Packages, NEW n \in Names
  PROVE  Found(p, n) \subseteq made
<1>1. \A q \in uses[p] : external[q][n] \in made \cup {NoSymbol}
  BY DEF IInv, Typed, Tables, Links
<1>2. QED
  BY <1>1, OwnAt, FoundAt

\* import of a symbol whose name means nothing in p.
LEMMA ImportStep ==
  ASSUME IInv, NEW p \in Packages, NEW s \in Symbols, Import(p, s)
  PROVE  IInv'
<1> DEFINE n == NameOf[s]
<1> USE DEF links, Import
<1>1. p \in live /\ s \in made /\ n \in Names /\ s # NoSymbol
  BY PackageAssumption
<1>2. Own(p, n) = NoSymbol /\ \A q \in uses[p] : external[q][n] = NoSymbol
  BY <1>1, FoundAt
<1>3. /\ internal' \in Tables' /\ external' \in Tables'
      /\ \A q \in Packages, m \in Names :
           internal'[q][m] = IF q = p /\ m = n THEN s ELSE internal[q][m]
  <2>1. internal \in Tables /\ external \in Tables
    BY DEF IInv, Typed
  <2>2. QED
    BY <1>1, <2>1 DEF With, Tables
<1>4. \A q \in Packages, m \in Names :
        Own(q, m)' = IF q = p /\ m = n THEN s ELSE Own(q, m)
  BY <1>1, <1>2, <1>3 DEF Own
<1>5. Typed'
  BY <1>1, <1>3 DEF IInv, Typed, Links, Homed
<1>6. CallOK' /\ UsesMirror'
  BY DEF IInv, CallOK, UsesMirror
<1>7. Named'
  BY <1>1, <1>3 DEF IInv, Named
<1>8. OneTable'
  BY <1>1, <1>2, <1>3 DEF IInv, OneTable, Own
<1>9. OneMeaning'
  BY <1>1, <1>2, <1>3, <1>4 DEF IInv, Typed, OneMeaning
<1>10. \A q \in Packages, t \in Symbols : Own(q, NameOf[t]) = t => Own(q, NameOf[t])' = t
  BY <1>1, <1>2, <1>4, NoSymbolOutside, PackageAssumption
<1>11. ShadowsPresent'
  BY <1>10 DEF IInv, Typed, ShadowsPresent
<1>12. HomesPresent'
  <2>1. \A t \in Symbols : home'[t] = home[t] \/ (t = s /\ home'[t] = p)
    BY DEF IInv, Typed, Homed
  <2>2. Own(p, n)' = s
    BY <1>1, <1>4
  <2>3. QED
    BY <1>10, <2>1, <2>2 DEF IInv, Typed, HomesPresent
<1>13. QED
  BY <1>5, <1>6, <1>7, <1>8, <1>9, <1>11, <1>12 DEF IInv

\* shadowing-import, of the user or as a restart: what the name meant is gone
\* from the tables, from the shadowing symbols and from its home.
LEMMA ImportShadowingStep ==
  ASSUME IInv, NEW p \in live, NEW s \in made, ImportShadowing(p, s),
         CallOK', call'.left \subseteq live \X Names
  PROVE  IInv'
<1> DEFINE n == NameOf[s]
<1> USE DEF links, ImportShadowing
<1>1. p \in Packages /\ s \in Symbols /\ n \in Names /\ s # NoSymbol
  BY PackageAssumption DEF IInv, Typed
<1>2. /\ internal' \in Tables' /\ external' \in Tables'
      /\ \A q \in Packages, m \in Names :
           /\ internal'[q][m] = IF q = p /\ m = n THEN s ELSE internal[q][m]
           /\ external'[q][m] = IF q = p /\ m = n THEN NoSymbol ELSE external[q][m]
  <2>1. internal \in Tables /\ external \in Tables
    BY DEF IInv, Typed
  <2>2. QED
    BY <1>1, <2>1 DEF With, Without, Tables
<1>3. \A q \in Packages, m \in Names :
        Own(q, m)' = IF q = p /\ m = n THEN s ELSE Own(q, m)
  BY <1>1, <1>2 DEF Own
<1>4. \A t \in Symbols : t \in Present(p, n) <=> Own(p, NameOf[t]) = t /\ NameOf[t] = n
  BY <1>1, OwnAt, NoSymbolOutside
<1>5. \A t \in Symbols : \/ home'[t] = NoPackage
                         \/ home'[t] = p /\ t = s
                         \/ home'[t] = home[t] /\ ~(t \in Present(p, n) /\ home[t] = p)
  BY DEF Homed, Unhomed
<1>6. shadowing' \in [Packages -> SUBSET made]
  BY <1>1 DEF IInv, Typed
<1>7. \A q \in Packages : shadowing'[q] = IF q = p THEN (shadowing[p] \ Present(p, n)) \cup {s}
                                          ELSE shadowing[q]
  BY <1>1 DEF IInv, Typed
<1>8. Typed'
  <2>1. home' \in [Symbols -> live \cup {NoPackage}]
    BY <1>1 DEF IInv, Typed, Homed, Unhomed
  <2>2. QED
    BY <1>1, <1>2, <1>6, <2>1 DEF IInv, Typed, Links
<1>9. UsesMirror'
  BY DEF IInv, UsesMirror
<1>10. Named'
  BY <1>1, <1>2 DEF IInv, Named
<1>11. OneTable'
  BY <1>1, <1>2 DEF IInv, OneTable
<1>12. OneMeaning'
  <2> SUFFICES ASSUME NEW q \in Packages, NEW m \in Names
               PROVE  \/ Own(q, m)' \in shadowing'[q]
                      \/ Own(q, m)' # NoSymbol /\ \A r \in uses[q] : external'[r][m] \in {Own(q, m)', NoSymbol}
                      \/ Own(q, m)' = NoSymbol /\ \A r, u \in uses[q] :
                           external'[r][m] # NoSymbol /\ external'[u][m] # NoSymbol
                             => external'[r][m] = external'[u][m]
    BY DEF OneMeaning
  <2>1. CASE q = p /\ m = n
    BY <1>1, <1>3, <1>7, <2>1
  <2>2. CASE ~(q = p /\ m = n)
    <3>1. Own(q, m)' = Own(q, m)
      BY <1>3, <2>2
    <3>2. Own(q, m) \in shadowing[q] => Own(q, m)' \in shadowing'[q]
      <4>1. Own(q, m) \in shadowing[q] => Own(q, m) # NoSymbol
        BY NoSymbolOutside DEF IInv, Typed
      <4>2. Own(q, m) # NoSymbol => Own(q, m) \in Symbols /\ NameOf[Own(q, m)] = m
        BY OwnAt
      <4>3. QED
        BY <1>4, <1>7, <2>2, <3>1, <4>1, <4>2
    <3>3. \A r \in uses[q] : r \in Packages /\ external'[r][m] \in {external[r][m], NoSymbol}
      BY <1>2 DEF IInv, Typed, Links
    <3>4. QED
      BY <3>1, <3>2, <3>3 DEF IInv, OneMeaning
  <2>3. QED
    BY <2>1, <2>2
<1>13. ShadowsPresent'
  <2> SUFFICES ASSUME NEW q \in Packages, NEW t \in shadowing'[q] PROVE Own(q, NameOf[t])' = t
    BY DEF ShadowsPresent
  <2>1. t \in Symbols /\ NameOf[t] \in Names
    BY <1>6, PackageAssumption DEF IInv, Typed
  <2>2. CASE q = p /\ t = s
    BY <1>1, <1>3, <2>2
  <2>3. CASE ~(q = p /\ t = s)
    <3>1. t \in shadowing[q] /\ (q = p => t \notin Present(p, n))
      BY <1>7, <2>3
    <3>2. Own(q, NameOf[t]) = t
      BY <3>1 DEF IInv, ShadowsPresent
    <3>3. QED
      BY <1>3, <1>4, <2>1, <3>1, <3>2
  <2>4. QED
    BY <2>2, <2>3
<1>14. HomesPresent'
  <2>1. ASSUME NEW t \in Symbols, NEW q \in Packages, home'[t] = q PROVE Own(q, NameOf[t])' = t
    <3>1. CASE q = p /\ t = s
      BY <1>1, <1>3, <3>1
    <3>2. CASE q = home[t] /\ ~(t \in Present(p, n) /\ q = p)
      <4>1. NameOf[t] \in Names /\ Own(q, NameOf[t]) = t
        BY <3>2, PackageAssumption DEF IInv, Typed, HomesPresent
      <4>2. QED
        BY <1>3, <1>4, <3>2, <4>1
    <3>3. QED
      BY <1>5, <2>1, <3>1, <3>2, PackageAssumption
  <2>2. QED
    BY <1>8, <2>1 DEF Typed, HomesPresent, Own
<1>15. QED
  BY <1>8, <1>9, <1>10, <1>11, <1>12, <1>13, <1>14 DEF IInv

\* shadow of a name that has a symbol in p.
LEMMA ShadowPresentStep ==
  ASSUME IInv, NEW p \in live, NEW n \in Names,
         ShadowName(p, n), Present(p, n) # {},
         CallOK', call'.left \subseteq live \X Names
  PROVE  IInv'
<1> USE DEF links
<1>1. p \in Packages
  BY DEF IInv, Typed
<1>2. Own(p, n) # NoSymbol /\ Found(p, n) = {Own(p, n)}
  BY <1>1, OwnAt, FoundAt
<1>3. Own(p, n) \in made /\ NameOf[Own(p, n)] = n
  BY <1>1, <1>2, OwnAt
<1>4. /\ shadowing' = [shadowing EXCEPT ![p] = @ \cup {Own(p, n)}]
      /\ UNCHANGED <<internal, external, uses, usedBy, home, made, live>>
  BY <1>2 DEF ShadowName
<1>5. \A q \in Packages, m \in Names : Own(q, m)' = Own(q, m)
  BY <1>4 DEF Own
<1>6. Typed'
  BY <1>1, <1>3, <1>4 DEF IInv, Typed, Tables, Links
<1>7. UsesMirror' /\ Named' /\ OneTable'
  BY <1>4 DEF IInv, UsesMirror, Named, OneTable
<1>8. \A q \in Packages : shadowing[q] \subseteq shadowing'[q]
  BY <1>1, <1>4 DEF IInv, Typed
<1>9. OneMeaning'
  BY <1>4, <1>5, <1>8 DEF IInv, OneMeaning
<1>10. ShadowsPresent'
  BY <1>1, <1>3, <1>4, <1>5, PackageAssumption DEF IInv, Typed, ShadowsPresent
<1>11. HomesPresent'
  BY <1>4 DEF IInv, HomesPresent, Own
<1>12. QED
  BY <1>6, <1>7, <1>9, <1>10, <1>11 DEF IInv

\* A table that s is dropped from.
LEMMA DroppedAt ==
  ASSUME NEW S, NoSymbol \in S, NEW table \in [Packages -> [Names -> S]],
         NEW p \in Packages, NEW s \in Symbols
  PROVE  /\ Dropped(table, p, s) \in [Packages -> [Names -> S]]
         /\ \A q \in Packages, m \in Names :
              Dropped(table, p, s)[q][m] = IF q = p /\ m = NameOf[s] /\ table[q][m] = s
                                           THEN NoSymbol ELSE table[q][m]
<1>1. NameOf[s] \in Names
  BY PackageAssumption
<1>2. /\ Without(table, p, NameOf[s]) \in [Packages -> [Names -> S]]
      /\ \A q \in Packages, m \in Names :
           Without(table, p, NameOf[s])[q][m] = IF q = p /\ m = NameOf[s] THEN NoSymbol ELSE table[q][m]
  BY <1>1 DEF Without
<1>3. QED
  BY <1>2 DEF Dropped

\* What unintern takes out is the symbol p has for the name: one that shadows is
\* present.
LEMMA OutOfOwn ==
  ASSUME IInv, NEW p \in live, NEW s \in Symbols, TakeOut(p, s)
  PROVE  /\ p \in Packages /\ NameOf[s] \in Names /\ s # NoSymbol
         /\ Own(p, NameOf[s]) = s /\ s \in Present(p, NameOf[s])
<1>1. p \in Packages /\ NameOf[s] \in Names
  BY PackageAssumption DEF IInv, Typed
<1>2. s \in shadowing[p] => Own(p, NameOf[s]) = s
  BY <1>1 DEF IInv, ShadowsPresent
<1>3. QED
  BY <1>1, <1>2, OwnAt, NoSymbolOutside DEF TakeOut

\* The tables without the symbol p has for the name.
LEMMA TakenOut ==
  ASSUME IInv, NEW p \in Packages, NEW s \in Symbols, TakeOut(p, s), Own(p, NameOf[s]) = s
  PROVE  /\ internal' \in Tables' /\ external' \in Tables'
         /\ \A q \in Packages, m \in Names :
              /\ internal'[q][m] = IF q = p /\ m = NameOf[s] THEN NoSymbol ELSE internal[q][m]
              /\ external'[q][m] = IF q = p /\ m = NameOf[s] THEN NoSymbol ELSE external[q][m]
<1> DEFINE S == made \cup {NoSymbol}
<1>1. internal \in [Packages -> [Names -> S]] /\ external \in [Packages -> [Names -> S]] /\ NoSymbol \in S
  BY DEF IInv, Typed, Tables
<1>2. internal' = Dropped(internal, p, s) /\ external' = Dropped(external, p, s) /\ made' = made
  BY DEF TakeOut
<1>3. internal' \in Tables' /\ external' \in Tables'
  <2>1. Tables' = [Packages -> [Names -> S]]
    BY <1>2 DEF Tables
  <2> HIDE DEF S
  <2>2. QED
    BY <1>1, <1>2, <2>1, DroppedAt
<1>4. \A q \in Packages, m \in Names :
        /\ internal'[q][m] = IF q = p /\ m = NameOf[s] /\ internal[q][m] = s THEN NoSymbol ELSE internal[q][m]
        /\ external'[q][m] = IF q = p /\ m = NameOf[s] /\ external[q][m] = s THEN NoSymbol ELSE external[q][m]
  <2> HIDE DEF S
  <2>1. QED
    BY <1>1, <1>2, DroppedAt
<1>5. external[p][NameOf[s]] \in {s, NoSymbol} /\ internal[p][NameOf[s]] \in {s, NoSymbol}
  BY PackageAssumption DEF IInv, OneTable, Own
<1>6. QED
  BY <1>3, <1>4, <1>5

\* unintern, of the user or as a restart: when no present symbol hides them any
\* more, the used packages agree on the name.
LEMMA TakeOutStep ==
  ASSUME IInv, NEW p \in live, NEW s \in Symbols, TakeOut(p, s),
         CallOK', call'.left \subseteq live \X Names
  PROVE  IInv'
<1> DEFINE n == NameOf[s]
<1> USE DEF links, TakeOut
<1>1. p \in Packages /\ n \in Names /\ s # NoSymbol /\ Own(p, n) = s
  BY OutOfOwn
<1>2. /\ internal' \in Tables' /\ external' \in Tables'
      /\ \A q \in Packages, m \in Names :
           /\ internal'[q][m] = IF q = p /\ m = n THEN NoSymbol ELSE internal[q][m]
           /\ external'[q][m] = IF q = p /\ m = n THEN NoSymbol ELSE external[q][m]
  BY <1>1, TakenOut
<1>3. \A q \in Packages, m \in Names :
        Own(q, m)' = IF q = p /\ m = n THEN NoSymbol ELSE Own(q, m)
  BY <1>1, <1>2 DEF Own
<1>4. shadowing' \in [Packages -> SUBSET made]
  BY <1>1 DEF IInv, Typed
<1>5. \A q \in Packages : shadowing'[q] = IF q = p THEN shadowing[p] \ {s} ELSE shadowing[q]
  BY <1>1 DEF IInv, Typed
<1>6. Typed'
  <2>1. home' \in [Symbols -> live \cup {NoPackage}]
    BY <1>1 DEF IInv, Typed, Unhomed
  <2>2. QED
    BY <1>1, <1>2, <1>4, <2>1 DEF IInv, Typed, Links
<1>7. UsesMirror' /\ Named' /\ OneTable'
  BY <1>1, <1>2 DEF IInv, UsesMirror, Named, OneTable
<1>8. \A q \in Packages, t \in Symbols :
        Own(q, NameOf[t]) = t /\ ~(q = p /\ t = s) => Own(q, NameOf[t])' = t
  BY <1>1, <1>3, PackageAssumption
<1>9. OneMeaning'
  <2> SUFFICES ASSUME NEW q \in Packages, NEW m \in Names
               PROVE  \/ Own(q, m)' \in shadowing'[q]
                      \/ Own(q, m)' # NoSymbol /\ \A r \in uses[q] : external'[r][m] \in {Own(q, m)', NoSymbol}
                      \/ Own(q, m)' = NoSymbol /\ \A r, u \in uses[q] :
                           external'[r][m] # NoSymbol /\ external'[u][m] # NoSymbol
                             => external'[r][m] = external'[u][m]
    BY DEF OneMeaning
  <2>1. \A r \in uses[q] : r \in Packages /\ external'[r][m] \in {external[r][m], NoSymbol}
    BY <1>2 DEF IInv, Typed, Links
  <2>2. CASE q = p /\ m = n
    <3>1. s \in shadowing[p] => \A r, u \in uses[p] :
            external[r][n] # NoSymbol /\ external[u][n] # NoSymbol => external[r][n] = external[u][n]
      <4>1. \A r \in uses[p] : external[r][n] # NoSymbol => external[r][n] \in Inherited(p, n)
        BY InheritedAt
      <4>2. QED
        BY <4>1 DEF AtMostOne
    <3>2. s \notin shadowing[p] => \A r \in uses[p] : external[r][n] \in {s, NoSymbol}
      BY <1>1 DEF IInv, OneMeaning
    <3>3. Own(q, m)' = NoSymbol
      BY <1>1, <1>3, <2>2
    <3>4. QED
      BY <2>1, <2>2, <3>1, <3>2, <3>3
  <2>3. CASE ~(q = p /\ m = n)
    <3>1. Own(q, m)' = Own(q, m)
      BY <1>3, <2>3
    <3>2. Own(q, m) \in shadowing[q] => Own(q, m)' \in shadowing'[q]
      <4>1. Own(q, m) = s => m = n
        BY OwnAt, <1>1
      <4>2. QED
        BY <1>5, <2>3, <3>1, <4>1
    <3>3. QED
      BY <2>1, <3>1, <3>2 DEF IInv, OneMeaning
  <2>4. QED
    BY <2>2, <2>3
<1>10. ShadowsPresent'
  BY <1>4, <1>5, <1>8 DEF IInv, Typed, ShadowsPresent
<1>11. HomesPresent'
  <2>1. ASSUME NEW t \in Symbols, NEW q \in Packages, home'[t] = q PROVE Own(q, NameOf[t])' = t
    <3>1. home[t] = q /\ ~(q = p /\ t = s)
      BY <2>1, OutOfOwn, PackageAssumption DEF Unhomed
    <3>2. QED
      BY <1>8, <3>1, PackageAssumption DEF IInv, HomesPresent
  <2>2. QED
    BY <1>6, <2>1 DEF Typed, HomesPresent, Own
<1>12. QED
  BY <1>6, <1>7, <1>9, <1>10, <1>11 DEF IInv

\* unexport of the symbol that is external: it stays present.
LEMMA UnexportStep ==
  ASSUME ~UnexportsAny, IInv, NEW p \in Packages, NEW s \in Symbols, Unexport(p, s)
  PROVE  IInv'
<1> DEFINE n == NameOf[s]
<1> USE DEF links, Unexport
<1>1. n \in Names /\ s # NoSymbol /\ external[p][n] = s /\ internal[p][n] = NoSymbol
  BY PackageAssumption DEF IInv, OneTable, Slot
<1>2. /\ internal' \in Tables' /\ external' \in Tables'
      /\ \A q \in Packages, m \in Names :
           /\ internal'[q][m] = IF q = p /\ m = n THEN s ELSE internal[q][m]
           /\ external'[q][m] = IF q = p /\ m = n THEN NoSymbol ELSE external[q][m]
  <2>1. internal \in Tables /\ external \in Tables
    BY DEF IInv, Typed
  <2>2. s \in made
    BY <1>1, <2>1 DEF Tables
  <2>3. QED
    BY <1>1, <2>1, <2>2 DEF With, Without, Tables
<1>3. \A q \in Packages, m \in Names : Own(q, m)' = Own(q, m)
  BY <1>1, <1>2 DEF Own
<1>4. Typed'
  BY <1>2 DEF IInv, Typed, Links
<1>5. CallOK' /\ UsesMirror' /\ Named' /\ OneTable'
  BY <1>1, <1>2 DEF IInv, CallOK, UsesMirror, Named, OneTable
<1>6. OneMeaning'
  <2>1. \A q \in Packages, m \in Names : \A r \in uses[q] :
          external'[r][m] \in {external[r][m], NoSymbol}
    BY <1>2 DEF IInv, Typed, Links
  <2>2. QED
    BY <1>3, <2>1 DEF IInv, OneMeaning
<1>7. ShadowsPresent'
  BY <1>3, PackageAssumption DEF IInv, Typed, ShadowsPresent
<1>8. HomesPresent'
  <2>1. \A t \in Symbols, q \in Packages : home'[t] = q => Own(q, NameOf[t])' = t
    BY <1>3, PackageAssumption DEF IInv, HomesPresent
  <2>2. QED
    BY <1>4, <2>1 DEF Typed, HomesPresent, Own
<1>9. QED
  BY <1>4, <1>5, <1>6, <1>7, <1>8 DEF IInv

\* A package where bringing in s is no conflict: a name means s there, or the
\* symbol it means is a shadowing one, or no symbol.
LEMMA NoClash ==
  ASSUME IInv, NEW p \in Packages, NEW n \in Names, NEW s \in Symbols, NameOf[s] = n, ~Clash(p, n, s)
  PROVE  \/ Own(p, n) \in shadowing[p]
         \/ Own(p, n) \in {s, NoSymbol} /\ \A q \in uses[p] : external[q][n] \in {s, NoSymbol}
<1>1. CASE Own(p, n) # NoSymbol
  <2>1. Found(p, n) = {Own(p, n)}
    BY <1>1, FoundAt
  <2>2. Own(p, n) = s \/ Own(p, n) \in shadowing[p]
    BY <2>1 DEF Clash
  <2>3. QED
    BY <1>1, <2>2 DEF IInv, OneMeaning
<1>2. CASE Own(p, n) = NoSymbol
  <2>1. \A q \in uses[p] : external[q][n] # NoSymbol => external[q][n] \in Found(p, n)
    BY <1>2, FoundAt
  <2>2. \A t \in Found(p, n) : NameOf[t] = n /\ t \in Symbols
    BY <1>2, FoundAt DEF IInv, Named, Typed, Tables, Links
  <2>3. \A t \in Found(p, n) : t \notin shadowing[p]
    BY <1>2, <2>2, NoSymbolOutside DEF IInv, ShadowsPresent
  <2>4. Found(p, n) \subseteq {s}
    BY <2>3 DEF Clash
  <2>5. QED
    BY <1>2, <2>1, <2>4
<1>3. QED
  BY <1>1, <1>2

\* EXPORT, now or when it starts over: the packages that use p have no clash.
LEMMA ExportStep ==
  ASSUME IInv, NEW p \in live, NEW s \in Symbols, ExportNow(p, s)
  PROVE  IInv'
<1> DEFINE n == NameOf[s]
<1> USE DEF links
<1>1. /\ p \in Packages /\ n \in Names /\ s # NoSymbol
      /\ Found(p, n) = {s} /\ external[p][n] = NoSymbol
  BY PackageAssumption DEF IInv, Typed, ExportNow, Slot
<1>2. internal[p][n] \in {s, NoSymbol} /\ s \in made
  <2>1. s \in Found(p, n)
    BY <1>1
  <2>2. Own(p, n) = internal[p][n] /\ internal[p][n] \in made \cup {NoSymbol}
    BY <1>1 DEF Own, IInv, Typed, Tables
  <2>3. \A q \in uses[p] : external[q][n] \in made \cup {NoSymbol}
    BY <1>1 DEF IInv, Typed, Tables, Links
  <2>4. QED
    BY <1>1, <2>1, <2>2, <2>3, FoundAt
<1>3. CASE ExportConflicts(p, s) # {}
  <2>1. call' = [op |-> "export", in |-> p, of |-> s, left |-> ExportConflicts(p, s)]
        /\ UNCHANGED <<tables, links, home, made, live>>
    BY <1>3 DEF ExportNow
  <2>2. call'.left \subseteq live \X Names
    BY <1>1, <2>1 DEF ExportConflicts, IInv, Typed, Links
  <2>3. CallOK'
    BY <1>2, <2>1 DEF CallOK
  <2>4. QED
    BY <2>1, <2>2, <2>3
       DEF IInv, Typed, Named, UsesMirror, OneTable, OneMeaning, ShadowsPresent, HomesPresent,
           Own, Tables, Links, tables
<1>4. CASE ExportConflicts(p, s) = {}
  <2>1. /\ external' = With(external, p, s) /\ internal' = Without(internal, p, n)
        /\ home' = Homed(home, p, s) /\ call' = NoCall
        /\ UNCHANGED <<shadowing, uses, usedBy, made, live>>
    BY <1>4 DEF ExportNow
  <2>2. /\ internal' \in Tables' /\ external' \in Tables'
        /\ \A q \in Packages, m \in Names :
             /\ internal'[q][m] = IF q = p /\ m = n THEN NoSymbol ELSE internal[q][m]
             /\ external'[q][m] = IF q = p /\ m = n THEN s ELSE external[q][m]
    <3>1. internal \in Tables /\ external \in Tables
      BY DEF IInv, Typed
    <3>2. QED
      BY <1>1, <1>2, <2>1, <3>1 DEF With, Without, Tables
  <2>3. \A q \in Packages, m \in Names :
          Own(q, m)' = IF q = p /\ m = n THEN s ELSE Own(q, m)
    BY <1>1, <2>2 DEF Own
  <2>4. Typed'
    BY <1>1, <2>1, <2>2 DEF IInv, Typed, Links, Homed, NoCall
  <2>5. CallOK' /\ UsesMirror'
    BY <2>1 DEF IInv, CallOK, UsesMirror
  <2>6. Named' /\ OneTable'
    BY <1>1, <2>2 DEF IInv, Named, OneTable
  <2>7. \A q \in Packages, t \in Symbols : Own(q, NameOf[t]) = t => Own(q, NameOf[t])' = t
    BY <1>1, <1>2, <2>3, NoSymbolOutside, PackageAssumption DEF Own
  <2>8. OneMeaning'
    <3> SUFFICES ASSUME NEW q \in Packages, NEW m \in Names
                 PROVE  \/ Own(q, m)' \in shadowing[q]
                        \/ Own(q, m)' # NoSymbol /\ \A r \in uses[q] : external'[r][m] \in {Own(q, m)', NoSymbol}
                        \/ Own(q, m)' = NoSymbol /\ \A r, u \in uses[q] :
                             external'[r][m] # NoSymbol /\ external'[u][m] # NoSymbol
                               => external'[r][m] = external'[u][m]
      BY <2>1 DEF OneMeaning
    <3>1. \A r \in uses[q] : r \in Packages
      BY DEF IInv, Typed, Links
    <3>2. CASE q = p /\ m = n
      <4>1. Own(p, n)' = s
        BY <1>1, <2>3
      <4>2. CASE Own(p, n) = s
        BY <1>1, <2>2, <3>1, <3>2, <4>1, <4>2 DEF IInv, OneMeaning
      <4>3. CASE Own(p, n) = NoSymbol
        <5>1. \A r \in uses[p] : external[r][n] \in {s, NoSymbol}
          BY <1>1, <4>3, FoundAt
        <5>2. QED
          BY <1>1, <2>2, <3>1, <3>2, <4>1, <5>1
      <4>4. QED
        BY <1>1, <1>2, <4>2, <4>3 DEF Own
    <3>3. CASE q # p /\ m = n /\ p \in uses[q]
      <4>1. ~Clash(q, n, s)
        <5> DEFINE c == <<q, n>>
        <5>1. c \in usedBy[p] \X {n} /\ c[1] = q /\ c[2] = n
          BY <1>1, <3>3 DEF IInv, UsesMirror
        <5> HIDE DEF c
        <5>2. QED
          BY <1>4, <5>1 DEF ExportConflicts
      <4>2. \/ Own(q, n) \in shadowing[q]
            \/ Own(q, n) \in {s, NoSymbol} /\ \A r \in uses[q] : external[r][n] \in {s, NoSymbol}
        BY <1>1, <4>1, NoClash
      <4>3. QED
        BY <1>1, <2>2, <2>3, <3>1, <3>3, <4>2
    <3>4. CASE m # n \/ (q # p /\ p \notin uses[q])
      <4>1. Own(q, m)' = Own(q, m) /\ \A r \in uses[q] : external'[r][m] = external[r][m]
        BY <2>2, <2>3, <3>1, <3>4
      <4>2. QED
        BY <4>1 DEF IInv, OneMeaning
    <3>5. QED
      BY <3>2, <3>3, <3>4
  <2>9. ShadowsPresent'
    BY <2>1, <2>7 DEF IInv, Typed, ShadowsPresent
  <2>10. HomesPresent'
    <3>1. ASSUME NEW t \in Symbols, NEW q \in Packages, home'[t] = q PROVE Own(q, NameOf[t])' = t
      <4>1. home[t] = q \/ (t = s /\ q = p)
        BY <2>1, <3>1 DEF IInv, Typed, Homed
      <4>2. home[t] = q => Own(q, NameOf[t]) = t
        BY PackageAssumption DEF IInv, HomesPresent
      <4>3. QED
        BY <1>1, <2>3, <2>7, <4>1, <4>2
    <3>2. QED
      BY <2>4, <3>1 DEF Typed, HomesPresent, Own
  <2>11. QED
    BY <2>4, <2>5, <2>6, <2>8, <2>9, <2>10 DEF IInv
<1>5. QED
  BY <1>3, <1>4

\* USE-PACKAGE, now or when it starts over.
LEMMA UseStep ==
  ASSUME IInv, NEW p \in live, NEW q \in live, UseNow(p, q)
  PROVE  IInv'
<1> USE DEF links, tables
<1>1. p \in Packages /\ q \in Packages
  BY DEF IInv, Typed
<1>2. UNCHANGED <<internal, external, shadowing, home, made, live>>
  BY DEF UseNow
<1>3. CASE UseConflicts(p, q) # {}
  <2>1. call' = [op |-> "use", in |-> p, of |-> q, left |-> UseConflicts(p, q)]
        /\ UNCHANGED <<uses, usedBy>>
    BY <1>3 DEF UseNow
  <2>2. call'.left \subseteq live \X Names
    BY <2>1 DEF UseConflicts
  <2>3. CallOK'
    BY <1>2, <2>1 DEF CallOK
  <2>4. QED
    BY <1>2, <2>1, <2>2, <2>3
       DEF IInv, Typed, Named, UsesMirror, OneTable, OneMeaning, ShadowsPresent, HomesPresent,
           Own, Tables, Links
<1>4. CASE UseConflicts(p, q) = {}
  <2>1. /\ uses' = [uses EXCEPT ![p] = @ \cup {q}]
        /\ usedBy' = [usedBy EXCEPT ![q] = @ \cup {p}]
        /\ call' = NoCall
    BY <1>4 DEF UseNow
  <2>2. Typed'
    BY <1>1, <1>2, <2>1 DEF IInv, Typed, Tables, Links, NoCall
  <2>3. UsesMirror'
    BY <1>1, <2>1 DEF IInv, Typed, Links, UsesMirror
  <2>4. CallOK' /\ Named' /\ OneTable' /\ ShadowsPresent' /\ HomesPresent'
    BY <1>2, <2>1 DEF IInv, CallOK, Named, OneTable, ShadowsPresent, HomesPresent, Own
  <2>5. OneMeaning'
    <3> SUFFICES ASSUME NEW r \in Packages, NEW m \in Names
                 PROVE  \/ Own(r, m) \in shadowing[r]
                        \/ Own(r, m) # NoSymbol /\ \A u \in uses'[r] : external[u][m] \in {Own(r, m), NoSymbol}
                        \/ Own(r, m) = NoSymbol /\ \A u, v \in uses'[r] :
                             external[u][m] # NoSymbol /\ external[v][m] # NoSymbol
                               => external[u][m] = external[v][m]
      BY <1>2 DEF OneMeaning, Own
    <3>1. uses'[r] = IF r = p THEN uses[p] \cup {q} ELSE uses[r]
      BY <1>1, <2>1 DEF IInv, Typed, Links
    <3>2. CASE r # p \/ external[q][m] = NoSymbol
      BY <3>1, <3>2 DEF IInv, OneMeaning
    <3>3. CASE r = p /\ external[q][m] # NoSymbol
      <4> DEFINE s == external[q][m]
      <4>1. s \in Symbols /\ NameOf[s] = m
        BY <1>1, <3>3 DEF IInv, Typed, Tables, Named
      <4>2. ~Clash(p, m, s)
        <5> DEFINE c == <<p, m>>
        <5>1. c \in {p} \X Names /\ c[1] = p /\ c[2] = m
          OBVIOUS
        <5>2. s \in Slot(external, q, m)
          BY <3>3 DEF Slot
        <5> HIDE DEF c, s
        <5>3. QED
          BY <1>4, <5>1, <5>2 DEF UseConflicts
      <4>3. \/ Own(p, m) \in shadowing[p]
            \/ Own(p, m) \in {s, NoSymbol} /\ \A u \in uses[p] : external[u][m] \in {s, NoSymbol}
        BY <1>1, <4>1, <4>2, NoClash
      <4>4. QED
        BY <3>1, <3>3, <4>3
    <3>4. QED
      BY <3>2, <3>3
  <2>6. QED
    BY <2>2, <2>3, <2>4, <2>5 DEF IInv
<1>5. QED
  BY <1>3, <1>4

\* unuse-package: there is less to inherit, and both lists forget it.
LEMMA UnuseStep ==
  ASSUME IInv, NEW p \in Packages, NEW q \in Packages, UnusePackage(p, q)
  PROVE  IInv'
<1> USE DEF links, tables, UnusePackage
<1>1. Typed'
  BY DEF IInv, Typed, Tables, Links
<1>2. UsesMirror'
  BY DEF IInv, Typed, Links, UsesMirror
<1>3. CallOK' /\ Named' /\ OneTable' /\ ShadowsPresent' /\ HomesPresent'
  BY DEF IInv, CallOK, Named, OneTable, ShadowsPresent, HomesPresent, Own
<1>4. OneMeaning'
  <2>1. \A r \in Packages : uses'[r] \subseteq uses[r]
    BY DEF IInv, Typed, Links
  <2>2. QED
    BY <2>1 DEF IInv, OneMeaning, Own
<1>5. QED
  BY <1>1, <1>2, <1>3, <1>4 DEF IInv

\* delete-package: nothing refers to the package, its symbols lose their home.
LEMMA DeleteStep ==
  ASSUME IInv, NEW p \in Packages, DeletePackage(p)
  PROVE  IInv'
<1> USE DEF DeletePackage
<1>1. /\ internal' \in Tables' /\ external' \in Tables'
      /\ \A q \in Packages, m \in Names :
           /\ internal'[q][m] = IF q = p THEN NoSymbol ELSE internal[q][m]
           /\ external'[q][m] = IF q = p THEN NoSymbol ELSE external[q][m]
  BY DEF IInv, Typed, Tables
<1>2. \A q \in Packages, m \in Names : Own(q, m)' = IF q = p THEN NoSymbol ELSE Own(q, m)
  BY <1>1 DEF Own
<1>3. \A q \in Packages : uses'[q] = IF q = p THEN {} ELSE uses[q] \ {p}
  OBVIOUS
<1>4. \A q \in Packages : shadowing'[q] = IF q = p THEN {} ELSE shadowing[q]
  BY DEF IInv, Typed
<1>5. \A t \in Symbols : home'[t] = NoPackage \/ (home'[t] = home[t] /\ home[t] # p)
  <2> SUFFICES ASSUME NEW t \in Symbols, home[t] = p PROVE home'[t] = NoPackage
    BY DEF Unhomed
  <2>1. NameOf[t] \in Names /\ Own(p, NameOf[t]) = t
    BY PackageAssumption DEF IInv, HomesPresent
  <2>2. t \in Present(p, NameOf[t])
    BY <2>1, OwnAt, NoSymbolOutside
  <2>3. QED
    BY <2>1, <2>2 DEF Unhomed
<1>6. Typed'
  <2>1. home' \in [Symbols -> live' \cup {NoPackage}]
    BY <1>5 DEF IInv, Typed, Unhomed
  <2>2. uses' \in Links' /\ usedBy' \in Links'
    BY DEF IInv, Typed, Links
  <2>3. shadowing' \in [Packages -> SUBSET made]
    BY DEF IInv, Typed
  <2>4. QED
    BY <1>1, <2>1, <2>2, <2>3 DEF IInv, Typed, Calm, NoCall
<1>7. UsesMirror'
  BY DEF IInv, Typed, Links, UsesMirror
<1>8. CallOK' /\ Named' /\ OneTable'
  BY <1>1 DEF IInv, CallOK, Calm, Named, OneTable
<1>9. OneMeaning'
  <2>1. \A q \in Packages : \A r \in uses'[q] : q # p /\ r # p /\ r \in uses[q] /\ r \in Packages
    BY <1>3 DEF IInv, Typed, Links
  <2>2. QED
    BY <1>1, <1>2, <1>4, <2>1 DEF IInv, OneMeaning
<1>10. ShadowsPresent'
  BY <1>2, <1>4, PackageAssumption DEF IInv, Typed, ShadowsPresent
<1>11. HomesPresent'
  <2>1. ASSUME NEW t \in Symbols, NEW q \in Packages, home'[t] = q PROVE Own(q, NameOf[t])' = t
    BY <1>2, <1>5, <2>1, PackageAssumption DEF IInv, HomesPresent
  <2>2. QED
    BY <1>6, <2>1 DEF Typed, HomesPresent, Own
<1>12. QED
  BY <1>6, <1>7, <1>8, <1>9, <1>10, <1>11 DEF IInv

\* shadow of a name, whether it has a symbol in p or not.
LEMMA ShadowNameStep ==
  ASSUME IInv, NEW p \in live, NEW n \in Names, ShadowName(p, n),
         call' = call \/ Present(p, n) # {},
         CallOK', call'.left \subseteq live \X Names
  PROVE  IInv'
<1>1. CASE Present(p, n) # {}
  BY <1>1, ShadowPresentStep
<1>2. CASE Present(p, n) = {}
  <2>1. p \in Packages
    BY DEF IInv, Typed
  <2>2. Own(p, n) = NoSymbol
    BY <1>2, <2>1, OwnAt
  <2>3. UNCHANGED <<external, links, live>>
    BY DEF ShadowName
  <2>4. call' = call
    BY <1>2
  <2>5. PICK s \in Fresh(n) : Create(p, s) /\ shadowing' = [shadowing EXCEPT ![p] = @ \cup {s}]
    BY <1>2 DEF ShadowName
  <2>6. QED
    BY <2>2, <2>3, <2>4, <2>5, CreateStep
<1>3. QED
  BY <1>1, <1>2

\* intern of a name that means nothing in p.
LEMMA InternStep ==
  ASSUME IInv, NEW p \in Packages, NEW n \in Names, Intern(p, n)
  PROVE  IInv'
<1>1. p \in live /\ Found(p, n) = {}
  BY DEF Intern
<1>2. Own(p, n) = NoSymbol /\ \A q \in uses[p] : external[q][n] = NoSymbol
  BY <1>1, FoundAt
<1>3. PICK s \in Fresh(n) : Create(p, s)
  BY DEF Intern
<1>4. UNCHANGED <<external, links, live, call>> /\ shadowing' = shadowing
  BY DEF Intern
<1>5. QED
  BY <1>1, <1>2, <1>3, <1>4, CreateStep

\* The restarts of a conflict of p.
LEMMA SettledStep ==
  ASSUME IInv, NEW p \in Packages, NEW n \in Names, <<p, n>> \in call.left, Settled(p, n), live' = live
  PROVE  p \in live /\ (CallOK /\ UNCHANGED made => CallOK') /\ call'.left \subseteq live \X Names
<1>1. p \in live /\ call.left \subseteq live \X Names
  BY DEF IInv, Typed
<1>2. call # NoCall
  BY DEF NoCall
<1>3. QED
  BY <1>1, <1>2 DEF IInv, Settled, CallOK

\* Every step keeps the inductive invariant.
LEMMA NextIInv == ~UnexportsAny /\ IInv /\ [Next]_vars => IInv'
<1> SUFFICES ASSUME ~UnexportsAny, IInv, [Next]_vars PROVE IInv'
  OBVIOUS
<1>1. ASSUME NEW p \in Packages, NEW n \in Names, Intern(p, n) \/ Shadow(p, n) PROVE IInv'
  <2>1. CASE Intern(p, n)
    BY <2>1, InternStep
  <2>2. CASE Shadow(p, n)
    <3>1. p \in live /\ ShadowName(p, n) /\ call' = call /\ made \subseteq made' /\ live' = live
      BY <2>2 DEF Shadow, ShadowName, Create
    <3>2. CallOK' /\ call'.left \subseteq live \X Names
      BY <3>1 DEF IInv, CallOK, Typed
    <3>3. QED
      BY <3>1, <3>2, ShadowNameStep
  <2>3. QED
    BY <1>1, <2>1, <2>2
<1>2. ASSUME NEW p \in Packages, NEW s \in Symbols,
             \/ Import(p, s) \/ ShadowingImport(p, s) \/ Unintern(p, s) \/ Export(p, s) \/ Unexport(p, s)
      PROVE  IInv'
  <2>1. CASE Import(p, s)
    BY <2>1, ImportStep
  <2>2. CASE ShadowingImport(p, s)
    <3>1. CallOK' /\ call'.left \subseteq live \X Names
      BY <2>2 DEF ShadowingImport, ImportShadowing, IInv, CallOK, Typed
    <3>2. QED
      BY <2>2, <3>1, ImportShadowingStep DEF ShadowingImport
  <2>3. CASE Unintern(p, s)
    <3>1. CallOK' /\ call'.left \subseteq live \X Names
      BY <2>3 DEF Unintern, TakeOut, IInv, CallOK, Typed
    <3>2. QED
      BY <2>3, <3>1, TakeOutStep DEF Unintern
  <2>4. CASE Export(p, s)
    BY <2>4, ExportStep DEF Export
  <2>5. CASE Unexport(p, s)
    BY <2>5, UnexportStep
  <2>6. QED
    BY <1>2, <2>1, <2>2, <2>3, <2>4, <2>5
<1>3. ASSUME NEW p \in Packages, NEW q \in Packages, UsePackage(p, q) \/ UnusePackage(p, q) PROVE IInv'
  BY <1>3, UseStep, UnuseStep DEF UsePackage
<1>4. ASSUME NEW p \in Packages, DeletePackage(p) PROVE IInv'
  BY <1>4, DeleteStep
<1>5. ASSUME NEW p \in Packages, NEW n \in Names, KeepOld(p, n) PROVE IInv'
  <2>1. <<p, n>> \in call.left /\ Settled(p, n) /\ UNCHANGED <<made, live>>
    BY <1>5 DEF KeepOld, ImportShadowing, ShadowName
  <2>2. p \in live /\ CallOK' /\ call'.left \subseteq live \X Names
    BY <2>1, SettledStep DEF IInv
  <2>3. CASE Present(p, n) = {}
    <3>1. PICK old \in Found(p, n) : ImportShadowing(p, old)
      BY <1>5, <2>3 DEF KeepOld
    <3>2. old \in made
      BY <2>1, <2>3, FoundInMade
    <3>3. QED
      BY <2>2, <3>1, <3>2, ImportShadowingStep
  <2>4. CASE Present(p, n) # {}
    BY <1>5, <2>2, <2>4, ShadowPresentStep DEF KeepOld
  <2>5. QED
    BY <2>3, <2>4
<1>6. ASSUME NEW p \in Packages, NEW n \in Names, TakeNew(p, n) PROVE IInv'
  <2>1. <<p, n>> \in call.left /\ Settled(p, n) /\ UNCHANGED <<made, live>>
    BY <1>6 DEF TakeNew, ImportShadowing, TakeOut
  <2>2. p \in live /\ CallOK' /\ call'.left \subseteq live \X Names
    BY <2>1, SettledStep DEF IInv
  <2>3. CASE Present(p, n) = {}
    <3>1. PICK new \in New(n) : ImportShadowing(p, new)
      BY <1>6, <2>3 DEF TakeNew
    <3>2. new \in made
      <4>1. call # NoCall
        BY <2>1 DEF NoCall
      <4>2. CASE call.op = "export"
        BY <3>1, <4>1, <4>2 DEF New, IInv, CallOK
      <4>3. CASE call.op # "export"
        <5>1. call.of \in Packages
          BY <4>1, <4>3 DEF IInv, CallOK, Typed
        <5>2. QED
          BY <3>1, <4>3, <5>1, FoundInMade DEF New
      <4>4. QED
        BY <4>2, <4>3
    <3>3. QED
      BY <2>2, <3>1, <3>2, ImportShadowingStep
  <2>4. CASE Present(p, n) # {}
    <3>1. PICK old \in Found(p, n) : TakeOut(p, old)
      BY <1>6, <2>4 DEF TakeNew
    <3>2. old \in Symbols
      BY <3>1, FoundInMade DEF IInv, Typed
    <3>3. QED
      BY <2>2, <3>1, <3>2, TakeOutStep
  <2>5. QED
    BY <2>3, <2>4
<1>7. ASSUME call' = NoCall, UNCHANGED <<tables, links, home, made, live>> PROVE IInv'
  BY <1>7 DEF IInv, Typed, CallOK, Named, UsesMirror, OneTable, OneMeaning, ShadowsPresent,
              HomesPresent, Own, Tables, Links, tables, links, NoCall
<1>8. ASSUME StartOver PROVE IInv'
  <2>1. CASE call.op = "export" /\ ExportNow(call.in, call.of)
    <3>1. call.in \in live /\ call.of \in Symbols
      BY <1>8, <2>1 DEF StartOver, Calm, IInv, CallOK, Typed
    <3>2. QED
      BY <2>1, <3>1, ExportStep
  <2>2. CASE call.op = "use" /\ UseNow(call.in, call.of)
    <3>1. call.in \in live /\ call.of \in live
      BY <1>8, <2>2 DEF StartOver, Calm, IInv, CallOK
    <3>2. QED
      BY <2>2, <3>1, UseStep
  <2>3. QED
    BY <1>8, <2>1, <2>2 DEF StartOver
<1>9. CASE UNCHANGED vars
  BY <1>9 DEF vars, IInv, Typed, CallOK, Named, UsesMirror, OneTable, OneMeaning, ShadowsPresent,
              HomesPresent, Own, Tables, Links
<1>10. QED
  BY <1>1, <1>2, <1>3, <1>4, <1>5, <1>6, <1>7, <1>8, <1>9 DEF Next, Resolve, Fail, Abort

\* The inductive invariant holds in every reachable state, for programs that
\* unexport only what is external.
THEOREM Invariance == ~UnexportsAny => (Spec => []IInv)
<1> SUFFICES ASSUME ~UnexportsAny PROVE Spec => []IInv
  OBVIOUS
<1>1. QED
  BY InitIInv, NextIInv, PTL DEF Spec

\* Tables, lists, homes and the call in progress only mention what there is: no
\* package that was deleted, for programs that unexport only what is external.
THEOREM TypeCorrect == ~UnexportsAny => (Spec => []TypeOK)
<1> SUFFICES ASSUME ~UnexportsAny PROVE Spec => []TypeOK
  OBVIOUS
<1>1. QED
  BY Invariance, Consequences, PTL

\* A name means one symbol in a package, after any sequence of calls and
\* whichever restarts are chosen for the conflicts, for programs that unexport
\* only what is external.
THEOREM NamesUnambiguous == ~UnexportsAny => (Spec => []Unambiguous)
<1> SUFFICES ASSUME ~UnexportsAny PROVE Spec => []Unambiguous
  OBVIOUS
<1>1. QED
  BY Invariance, Consequences, PTL

\* A shadowing symbol is present, and so is a symbol in its home package, after
\* any sequence of calls of programs that unexport only what is external.
THEOREM SymbolsStayPresent == ~UnexportsAny => (Spec => []SymbolsPresent)
<1> SUFFICES ASSUME ~UnexportsAny PROVE Spec => []SymbolsPresent
  OBVIOUS
<1>1. QED
  BY Invariance, Consequences, PTL

\* intern, import, EXPORT and USE-PACKAGE change no meaning a name has: the
\* conflicts they look for are all there are.
LEMMA MeaningStep ==
  ASSUME IInv,
         \E p \in Packages : \/ \E n \in Names : Intern(p, n)
                             \/ \E s \in Symbols : Import(p, s) \/ ExportNow(p, s)
                             \/ \E q \in Packages : UseNow(p, q)
  PROVE  \A p \in Packages, n \in Names : Found(p, n) # {} => Found(p, n)' = Found(p, n)
<1> USE DEF links, tables
<1> DEFINE Same(r, m) ==
      /\ Own(r, m)' = Own(r, m)
      /\ Own(r, m) = NoSymbol =>
           \A t : t # NoSymbol => ((\E q \in uses'[r] : external'[q][m] = t)
                                     <=> \E q \in uses[r] : external[q][m] = t)
<1>1. ASSUME NEW r, NEW m, Same(r, m) PROVE Found(r, m)' = Found(r, m)
  <2>1. \A t : t \in Found(r, m)' <=> /\ t # NoSymbol
                                      /\ IF Own(r, m)' # NoSymbol THEN t = Own(r, m)'
                                         ELSE \E q \in uses'[r] : external'[q][m] = t
    BY DEF Found, Inherited, Slot, Own
  <2>2. \A t : t \in Found(r, m) <=> /\ t # NoSymbol
                                     /\ IF Own(r, m) # NoSymbol THEN t = Own(r, m)
                                        ELSE \E q \in uses[r] : external[q][m] = t
    BY FoundAt
  <2>3. \A t : t \in Found(r, m)' <=> t \in Found(r, m)
    <3>1. CASE Own(r, m) = NoSymbol
      BY <1>1, <2>1, <2>2, <3>1
    <3>2. CASE Own(r, m) # NoSymbol
      BY <1>1, <2>1, <2>2, <3>2
    <3>3. QED
      BY <3>1, <3>2
  <2>4. QED
    BY <2>3
<1>2. \A q \in Packages : uses[q] \subseteq Packages
  BY DEF IInv, Typed, Links
<1>3. ASSUME NEW p \in Packages, NEW s \in Symbols,
             Found(p, NameOf[s]) = {}, internal' = With(internal, p, s),
             UNCHANGED <<external, uses>>
      PROVE  \A r \in Packages, m \in Names : Found(r, m) # {} => Found(r, m)' = Found(r, m)
  <2>1. \A r \in Packages, m \in Names : ~(r = p /\ m = NameOf[s]) => internal'[r][m] = internal[r][m]
    BY <1>3 DEF With, IInv, Typed, Tables
  <2>2. \A r \in Packages, m \in Names : ~(r = p /\ m = NameOf[s]) => Same(r, m)
    BY <1>3, <2>1 DEF Own
  <2>3. QED
    BY <1>1, <1>3, <2>2
<1>4. ASSUME NEW p \in Packages, NEW n \in Names, Intern(p, n)
      PROVE  \A r \in Packages, m \in Names : Found(r, m) # {} => Found(r, m)' = Found(r, m)
  <2>1. PICK s \in Fresh(n) : Create(p, s)
    BY <1>4 DEF Intern
  <2>2. s \in Symbols /\ NameOf[s] = n
    BY DEF Fresh
  <2>3. QED
    BY <1>3, <1>4, <2>1, <2>2 DEF Intern, Create
<1>5. ASSUME NEW p \in Packages, NEW s \in Symbols, Import(p, s)
      PROVE  \A r \in Packages, m \in Names : Found(r, m) # {} => Found(r, m)' = Found(r, m)
  BY <1>3, <1>5 DEF Import
<1>6. ASSUME NEW p \in Packages, NEW s \in Symbols, ExportNow(p, s)
      PROVE  \A r \in Packages, m \in Names : Found(r, m) # {} => Found(r, m)' = Found(r, m)
  <2> DEFINE n == NameOf[s]
  <2>1. n \in Names /\ s # NoSymbol /\ Found(p, n) = {s} /\ external[p][n] = NoSymbol
    BY <1>6, PackageAssumption DEF ExportNow, Slot
  <2>2. CASE UNCHANGED <<external, internal, uses>>
    <3>1. \A r \in Packages, m \in Names : Same(r, m)
      BY <2>2 DEF Own
    <3>2. QED
      BY <1>1, <3>1
  <2>3. CASE /\ ExportConflicts(p, s) = {}
             /\ external' = With(external, p, s) /\ internal' = Without(internal, p, n)
             /\ uses' = uses
    <3>1. \A r \in Packages, m \in Names :
            /\ internal'[r][m] = IF r = p /\ m = n THEN NoSymbol ELSE internal[r][m]
            /\ external'[r][m] = IF r = p /\ m = n THEN s ELSE external[r][m]
      BY <2>1, <2>3 DEF With, Without, IInv, Typed, Tables
    <3> SUFFICES ASSUME NEW r \in Packages, NEW m \in Names, Found(r, m) # {}
                 PROVE  Found(r, m)' = Found(r, m)
      OBVIOUS
    <3>2. CASE r = p /\ m = n
      <4>1. Own(p, n)' = s
        BY <2>1, <3>1 DEF Own
      <4>2. Found(r, m)' = {s}
        <5>1. Slot(external, p, n)' = {s}
          BY <2>1, <3>1 DEF Slot
        <5>2. QED
          BY <3>2, <5>1 DEF Found
      <4>3. QED
        BY <2>1, <3>2, <4>2
    <3>3. CASE m = n /\ r # p /\ p \in uses[r]
      <4>1. ~Clash(r, n, s)
        <5> DEFINE c == <<r, n>>
        <5>1. c \in usedBy[p] \X {n} /\ c[1] = r /\ c[2] = n
          BY <3>3 DEF IInv, UsesMirror
        <5> HIDE DEF c
        <5>2. QED
          BY <2>3, <5>1 DEF ExportConflicts
      <4>2. \/ Own(r, n) \in shadowing[r]
            \/ Own(r, n) \in {s, NoSymbol} /\ \A q \in uses[r] : external[q][n] \in {s, NoSymbol}
        BY <2>1, <4>1, NoClash
      <4>3. Own(r, n)' = Own(r, n)
        BY <2>1, <3>1, <3>3 DEF Own
      <4>4. Own(r, n) \in shadowing[r] => Own(r, n) # NoSymbol
        BY NoSymbolOutside DEF IInv, Typed
      <4>5. Own(r, n) = NoSymbol => \E q \in uses[r] : external[q][n] = s
        BY <3>3, <4>2, <4>4, FoundAt
      <4>6. external'[p][n] = s /\ \A q \in uses[r] : q # p => external'[q][n] = external[q][n]
        BY <1>2, <2>1, <3>1
      <4>7. Same(r, n)
        BY <2>3, <3>3, <4>2, <4>3, <4>4, <4>5, <4>6
      <4>8. QED
        BY <1>1, <3>3, <4>7
    <3>4. CASE m # n \/ (r # p /\ p \notin uses[r])
      <4>1. Own(r, m)' = Own(r, m) /\ \A q \in uses[r] : external'[q][m] = external[q][m]
        BY <1>2, <3>1, <3>4 DEF Own
      <4>2. Same(r, m)
        BY <2>3, <4>1
      <4>3. QED
        BY <1>1, <4>2
    <3>5. QED
      BY <3>2, <3>3, <3>4
  <2>4. QED
    BY <1>6, <2>2, <2>3 DEF ExportNow
<1>7. ASSUME NEW p \in Packages, NEW q \in Packages, UseNow(p, q)
      PROVE  \A r \in Packages, m \in Names : Found(r, m) # {} => Found(r, m)' = Found(r, m)
  <2>1. UNCHANGED <<external, internal>>
    BY <1>7 DEF UseNow
  <2> SUFFICES ASSUME NEW r \in Packages, NEW m \in Names, Found(r, m) # {}
               PROVE  Same(r, m)
    BY <1>1
  <2>2. Own(r, m)' = Own(r, m)
    BY <2>1 DEF Own
  <2>3. CASE uses' = uses
    BY <2>1, <2>2, <2>3
  <2>4. CASE UseConflicts(p, q) = {} /\ uses' = [uses EXCEPT ![p] = @ \cup {q}]
    <3>1. uses'[r] = IF r = p THEN uses[p] \cup {q} ELSE uses[r]
      BY <2>4 DEF IInv, Typed, Links
    <3>2. CASE r # p \/ external[q][m] = NoSymbol
      BY <2>1, <2>2, <3>1, <3>2
    <3>3. CASE r = p /\ external[q][m] # NoSymbol
      <4> DEFINE s == external[q][m]
      <4>1. s \in Symbols /\ NameOf[s] = m
        BY <3>3 DEF IInv, Typed, Tables, Named
      <4>2. ~Clash(p, m, s)
        <5> DEFINE c == <<p, m>>
        <5>1. c \in {p} \X Names /\ c[1] = p /\ c[2] = m
          OBVIOUS
        <5>2. s \in Slot(external, q, m)
          BY <3>3 DEF Slot
        <5> HIDE DEF c, s
        <5>3. QED
          BY <2>4, <5>1, <5>2 DEF UseConflicts
      <4>3. \/ Own(p, m) \in shadowing[p]
            \/ Own(p, m) \in {s, NoSymbol} /\ \A u \in uses[p] : external[u][m] \in {s, NoSymbol}
        BY <4>1, <4>2, NoClash
      <4>4. Own(p, m) \in shadowing[p] => Own(p, m) # NoSymbol
        BY NoSymbolOutside DEF IInv, Typed
      <4>5. Own(p, m) = NoSymbol => \E u \in uses[p] : external[u][m] = s
        BY <3>3, <4>3, <4>4, FoundAt
      <4>6. QED
        BY <2>1, <2>2, <3>1, <3>3, <4>3, <4>4, <4>5
    <3>4. QED
      BY <3>2, <3>3
  <2>5. QED
    BY <1>7, <2>3, <2>4 DEF UseNow
<1>8. QED
  BY <1>4, <1>5, <1>6, <1>7

\* Nothing that is interned, imported, exported or used anywhere changes what a
\* name means, in any package, for programs that unexport only what is external.
THEOREM MeaningIsKept == ~UnexportsAny => (Spec => MeaningKept)
<1> SUFFICES ASSUME ~UnexportsAny PROVE Spec => MeaningKept
  OBVIOUS
<1>1. ASSUME IInv, \E p \in Packages : \/ \E n \in Names : Intern(p, n)
                                       \/ \E s \in Symbols : Import(p, s) \/ ExportNow(p, s)
                                       \/ \E q \in Packages : UseNow(p, q)
      PROVE  \A p \in Packages, n \in Names : Found(p, n) # {} => Found(p, n)' = Found(p, n)
  BY <1>1, MeaningStep
<1>2. QED
  BY <1>1, Invariance, PTL DEF MeaningKept

-----------------------------------------------------------------------------
\* The call in progress.

\* What EXPORT and USE-PACKAGE found when they began is so while the conflicts are
\* resolved, in other packages or in this one.
ExportOK == call.op = "export" =>
  /\ Found(call.in, NameOf[call.of]) = {call.of}
  /\ Slot(external, call.in, NameOf[call.of]) = {}
  /\ \A c \in call.left : c[1] \in usedBy[call.in] /\ c[2] = NameOf[call.of]

UseOK == call.op = "use" =>
  /\ call.of \notin uses[call.in] /\ call.of # call.in
  /\ \A c \in call.left : c[1] = call.in /\ Slot(external, call.of, c[2]) # {}

\* A conflict that is left is about a symbol that does not shadow.
LeftOpen == \A c \in call.left : Own(c[1], c[2]) \notin shadowing[c[1]]

CallInv == ExportOK /\ UseOK /\ LeftOpen

\* The call that starts over passes the tests it passed when it began.
Ready == /\ call.op = "export" => /\ Found(call.in, NameOf[call.of]) = {call.of}
                                  /\ Slot(external, call.in, NameOf[call.of]) = {}
         /\ call.op = "use" => call.of \notin uses[call.in]

\* The places in dispute, and those of them with a symbol of their own.
Disputed == IF call.op = "export" THEN ExportConflicts(call.in, call.of)
            ELSE IF call.op = "use" THEN UseConflicts(call.in, call.of)
            ELSE {}
Entrenched == {c \in Disputed : Present(c[1], c[2]) # {}}

\* What is settled for the name n in p: a symbol there shadows, or there is none
\* any more; and nothing is different for other names or packages, but that p may
\* export less.
Did(p, n) ==
  /\ UNCHANGED links
  /\ \A q \in Packages, m \in Names : q # p \/ m # n =>
       /\ Own(q, m)' = Own(q, m) /\ external'[q][m] = external[q][m]
       /\ Own(q, m) \in shadowing'[q] <=> Own(q, m) \in shadowing[q]
  /\ external'[p][n] \in {external[p][n], NoSymbol}
  /\ \/ Own(p, n)' # NoSymbol /\ Own(p, n)' \in shadowing'[p]
     \/ Own(p, n) # NoSymbol /\ Own(p, n)' = NoSymbol

\* Where nothing is in the tables, nothing is present, and so after a step.
LEMMA OwnPresent == ASSUME NEW p, NEW n
                    PROVE  /\ Present(p, n) # {} <=> Own(p, n) # NoSymbol
                           /\ Present(p, n)' # {} <=> Own(p, n)' # NoSymbol
BY DEF Present, Slot, Own

\* What findSymbol gives after a step.
LEMMA FoundAtNext == ASSUME NEW p, NEW n, NEW s
                     PROVE  s \in Found(p, n)' <=> /\ s # NoSymbol
                                                   /\ IF Own(p, n)' # NoSymbol THEN s = Own(p, n)'
                                                      ELSE \E q \in uses'[p] : external'[q][n] = s
BY DEF Found, Inherited, Slot, Own

\* A symbol that is imported shadows.
LEMMA ImportShadowingDoes ==
  ASSUME IInv, NEW p \in Packages, NEW s \in made, ImportShadowing(p, s)
  PROVE  Did(p, NameOf[s])
<1> DEFINE n == NameOf[s]
<1>1. s \in Symbols /\ n \in Names /\ s # NoSymbol
  BY PackageAssumption DEF IInv, Typed
<1>2. \A q \in Packages, m \in Names :
        /\ internal'[q][m] = IF q = p /\ m = n THEN s ELSE internal[q][m]
        /\ external'[q][m] = IF q = p /\ m = n THEN NoSymbol ELSE external[q][m]
  <2>1. internal \in Tables /\ external \in Tables
    BY DEF IInv, Typed
  <2>2. QED
    BY <1>1, <2>1 DEF With, Without, Tables, ImportShadowing
<1>3. \A q \in Packages, m \in Names : Own(q, m)' = IF q = p /\ m = n THEN s ELSE Own(q, m)
  BY <1>1, <1>2 DEF Own
<1>4. \A q \in Packages : shadowing'[q] = IF q = p THEN (shadowing[p] \ Present(p, n)) \cup {s}
                                          ELSE shadowing[q]
  BY <1>1 DEF IInv, Typed, ImportShadowing
<1>5. ASSUME NEW q \in Packages, NEW m \in Names, q # p \/ m # n
      PROVE  Own(q, m) \in shadowing'[q] <=> Own(q, m) \in shadowing[q]
  <2>1. CASE q # p
    BY <1>4, <2>1
  <2>2. CASE q = p /\ m # n
    <3>1. Own(q, m) \notin Present(p, n) /\ Own(q, m) # s
      BY <1>1, <2>2, OwnAt
    <3>2. QED
      BY <1>4, <2>2, <3>1
  <2>3. QED
    BY <1>5, <2>1, <2>2
<1>6. Own(p, n)' # NoSymbol /\ Own(p, n)' \in shadowing'[p] /\ external'[p][n] = NoSymbol
  BY <1>1, <1>2, <1>3, <1>4
<1>7. UNCHANGED links
  BY DEF ImportShadowing
<1>8. QED
  BY <1>2, <1>3, <1>5, <1>6, <1>7 DEF Did

\* So does a symbol that was present and is made to shadow.
LEMMA ShadowNameDoes ==
  ASSUME IInv, NEW p \in Packages, NEW n \in Names, ShadowName(p, n), Present(p, n) # {}
  PROVE  Did(p, n)
<1>1. Own(p, n) # NoSymbol /\ Found(p, n) = {Own(p, n)}
  BY OwnPresent, FoundAt
<1>2. /\ shadowing' = [shadowing EXCEPT ![p] = @ \cup Found(p, n)]
      /\ UNCHANGED <<internal, external, links>>
  BY DEF ShadowName
<1>3. \A q, m : Own(q, m)' = Own(q, m)
  BY <1>2 DEF Own
<1>4. \A q \in Packages : shadowing'[q] = IF q = p THEN shadowing[p] \cup {Own(p, n)} ELSE shadowing[q]
  BY <1>1, <1>2 DEF IInv, Typed
<1>5. ASSUME NEW m \in Names, m # n PROVE Own(p, m) # Own(p, n)
  BY <1>1, <1>5, OwnAt
<1>6. QED
  BY <1>1, <1>2, <1>3, <1>4, <1>5 DEF Did

\* A symbol that is taken out is no more, and the others are as they were.
LEMMA TakeOutDoes ==
  ASSUME IInv, NEW p \in Packages, NEW n \in Names, NEW s \in Found(p, n), TakeOut(p, s), Present(p, n) # {}
  PROVE  Did(p, n)
<1>1. s = Own(p, n) /\ s # NoSymbol /\ NameOf[s] = n
  BY OwnPresent, FoundAt, OwnAt
<1>2. \A q \in Packages, m \in Names :
        /\ internal'[q][m] = IF q = p /\ m = n THEN NoSymbol ELSE internal[q][m]
        /\ external'[q][m] = IF q = p /\ m = n THEN NoSymbol ELSE external[q][m]
  BY <1>1, OwnAt, TakenOut
<1>3. \A q \in Packages, m \in Names : Own(q, m)' = IF q = p /\ m = n THEN NoSymbol ELSE Own(q, m)
  BY <1>2 DEF Own
<1>4. \A q \in Packages : shadowing'[q] = IF q = p THEN shadowing[p] \ {s} ELSE shadowing[q]
  BY DEF IInv, Typed, TakeOut
<1>5. ASSUME NEW m \in Names, m # n PROVE Own(p, m) # s
  BY <1>1, <1>5, OwnAt
<1>6. UNCHANGED links
  BY DEF TakeOut
<1>7. QED
  BY <1>1, <1>2, <1>3, <1>4, <1>5, <1>6 DEF Did

\* What a restart that was chosen does.
LEMMA ChoiceDoes ==
  ASSUME IInv, CallInv, NEW p \in Packages, NEW n \in Names, KeepOld(p, n) \/ TakeNew(p, n)
  PROVE  /\ <<p, n>> \in call.left /\ Conflicting(p, n)
         /\ call' = [call EXCEPT !.left = @ \ {<<p, n>>}]
         /\ Did(p, n)
<1>1. /\ <<p, n>> \in call.left /\ Conflicting(p, n)
      /\ call' = [call EXCEPT !.left = @ \ {<<p, n>>}]
  BY DEF KeepOld, TakeNew, Settled
<1>2. call # NoCall
  BY <1>1 DEF NoCall
<1>3. ASSUME NEW q \in Packages, NEW s \in Found(q, n) PROVE s \in made /\ NameOf[s] = n
  <2>1. s \in made
    BY FoundInMade
  <2>2. \A r \in uses[q] : r \in Packages
    BY DEF IInv, Typed, Links
  <2>3. NameOf[s] = n
    BY <2>2, FoundAt, OwnAt DEF IInv, Named
  <2>4. QED
    BY <2>1, <2>3
<1>4. ASSUME NEW s \in New(n) PROVE s \in made /\ NameOf[s] = n
  <2>1. CASE call.op = "export"
    <3> DEFINE c == <<p, n>>
    <3>1. c \in call.left /\ c[2] = n
      BY <1>1
    <3> HIDE DEF c
    <3>2. n = NameOf[call.of]
      BY <2>1, <3>1 DEF CallInv, ExportOK
    <3>3. s = call.of /\ call.of \in made
      BY <1>2, <2>1 DEF New, IInv, CallOK
    <3>4. QED
      BY <3>2, <3>3
  <2>2. CASE call.op # "export"
    <3>1. call.of \in Packages /\ s \in Found(call.of, n)
      BY <1>2, <2>2 DEF New, IInv, CallOK, Typed
    <3>2. QED
      BY <1>3, <3>1
  <2>3. QED
    BY <2>1, <2>2
<1>5. CASE Present(p, n) = {}
  <2>1. PICK s \in Found(p, n) \cup New(n) : ImportShadowing(p, s)
    BY <1>5 DEF KeepOld, TakeNew
  <2>2. s \in made /\ NameOf[s] = n
    BY <1>3, <1>4
  <2>3. QED
    BY <1>1, <2>1, <2>2, ImportShadowingDoes
<1>6. CASE Present(p, n) # {}
  <2>1. CASE KeepOld(p, n)
    BY <1>1, <1>6, <2>1, ShadowNameDoes DEF KeepOld
  <2>2. CASE TakeNew(p, n)
    BY <1>1, <1>6, <2>2, TakeOutDoes DEF TakeNew
  <2>3. QED
    BY <2>1, <2>2
<1>7. QED
  BY <1>5, <1>6

\* A name means at most one symbol.
LEMMA OneFound ==
  ASSUME IInv, NEW p \in Packages, NEW n \in Names
  PROVE  \A s, t \in Found(p, n) : s = t
<1>1. Own(p, n) = NoSymbol => Own(p, n) \notin shadowing[p]
  BY NoSymbolOutside DEF IInv, Typed
<1>2. QED
  BY <1>1, FoundAt DEF IInv, OneMeaning

\* What is settled elsewhere takes a meaning away, or leaves it.
LEMMA FoundAfter ==
  ASSUME IInv, NEW p \in Packages, NEW n \in Names, Did(p, n),
         NEW q \in Packages, NEW m \in Names, q # p \/ m # n
  PROVE  Found(q, m)' \in {{}, Found(q, m)}
<1>1. Own(q, m)' = Own(q, m) /\ uses' = uses
  BY DEF Did, links
<1>2. \A r \in uses[q] : external'[r][m] \in {external[r][m], NoSymbol}
  BY DEF Did, IInv, Typed, Links
<1>3. \A s : s \in Found(q, m)' => s \in Found(q, m)
  BY <1>1, <1>2, FoundAt, FoundAtNext
<1>4. \A s, t \in Found(q, m) : s = t
  BY OneFound
<1>5. QED
  BY <1>3, <1>4

\* It brings no clash.
LEMMA ClashAfter ==
  ASSUME IInv, NEW p \in Packages, NEW n \in Names, Did(p, n),
         NEW q \in Packages, NEW m \in Names, NEW s, Clash(q, m, s)'
  PROVE  Clash(q, m, s) \/ (q = p /\ m = n /\ Own(p, n)' = NoSymbol)
<1>0. Found(q, m)' \notin {{}, {s}} /\ ~(Found(q, m)' \subseteq shadowing'[q])
  BY DEF Clash
<1>1. CASE q # p \/ m # n
  <2>1. Found(q, m)' = Found(q, m)
    BY <1>0, <1>1, FoundAfter
  <2>2. ~(Found(q, m) \subseteq shadowing[q])
    <3>1. CASE Own(q, m) # NoSymbol
      <4>1. Found(q, m) = {Own(q, m)}
        BY <3>1, FoundAt
      <4>2. Own(q, m) \in shadowing'[q] <=> Own(q, m) \in shadowing[q]
        BY <1>1 DEF Did
      <4>3. QED
        BY <1>0, <2>1, <4>1, <4>2
    <3>2. CASE Own(q, m) = NoSymbol
      <4>1. PICK t \in Found(q, m) : TRUE
        BY <1>0, <2>1
      <4>2. t \in Symbols /\ NameOf[t] = m /\ t # NoSymbol
        BY <3>2, FoundAt, NoSymbolOutside DEF IInv, Named, Typed, Tables, Links
      <4>3. t \notin shadowing[q]
        BY <3>2, <4>2 DEF IInv, ShadowsPresent
      <4>4. QED
        BY <4>1, <4>3
    <3>3. QED
      BY <3>1, <3>2
  <2>3. QED
    BY <1>0, <2>1, <2>2 DEF Clash
<1>2. CASE q = p /\ m = n /\ Own(p, n)' # NoSymbol
  <2>1. Found(p, n)' = {Own(p, n)'}
    BY <1>2, FoundAtNext
  <2>2. QED
    BY <1>0, <1>2, <2>1 DEF Did
<1>3. QED
  BY <1>1, <1>2

\* A restart that was chosen leaves the call as it was, but for the conflict.
LEMMA ChoiceKeepsCall ==
  ASSUME IInv, CallInv, NEW p \in Packages, NEW n \in Names, KeepOld(p, n) \/ TakeNew(p, n)
  PROVE  CallInv' /\ UNCHANGED <<call.op, call.in, call.of>> /\ call'.left \subseteq call.left
<1>1. <<p, n>> \in call.left /\ Conflicting(p, n) /\ Did(p, n)
      /\ call' = [call EXCEPT !.left = @ \ {<<p, n>>}]
  BY ChoiceDoes
<1>2. call # NoCall
  BY <1>1 DEF NoCall
<1>3. /\ call'.op = call.op /\ call'.in = call.in /\ call'.of = call.of
      /\ call'.left = call.left \ {<<p, n>>}
  BY <1>1
<1>4. call.in \in Packages /\ \A c \in call.left : c = <<c[1], c[2]>> /\ c[1] \in Packages /\ c[2] \in Names
  BY <1>2 DEF IInv, CallOK, Typed
<1>5. ExportOK'
  <2> SUFFICES ASSUME NEW r, NEW s, call.op = "export", call.in = r, call.of = s
               PROVE  /\ Found(r, NameOf[s])' = {s}
                      /\ Slot(external, r, NameOf[s])' = {}
                      /\ \A c \in call'.left : c[1] \in usedBy'[r] /\ c[2] = NameOf[s]
    BY <1>3 DEF ExportOK, Found, Inherited, Slot
  <2>1. /\ Found(r, NameOf[s]) = {s} /\ Slot(external, r, NameOf[s]) = {}
        /\ \A c \in call.left : c[1] \in usedBy[r] /\ c[2] = NameOf[s]
    BY DEF CallInv, ExportOK
  <2>2. n = NameOf[s]
    <3> DEFINE c == <<p, n>>
    <3>1. c \in call.left /\ c[2] = n
      BY <1>1
    <3> HIDE DEF c
    <3>2. QED
      BY <2>1, <3>1
  <2>3. Found(p, n) # {s} /\ r # p /\ r \in Packages
    BY <1>1, <1>4, <2>1, <2>2 DEF Conflicting, New
  <2>4. /\ Own(r, n)' = Own(r, n) /\ external'[r][n] = external[r][n] /\ uses' = uses /\ usedBy' = usedBy
    BY <1>1, <2>3 DEF Did, links
  <2>5. Found(r, n)' \in {{}, {s}}
    BY <1>1, <2>1, <2>2, <2>3, FoundAfter
  <2>6. s \in Found(r, n)'
    <3>1. s \in Found(r, n)
      BY <2>1, <2>2
    <3>2. s # NoSymbol
      BY <3>1, FoundAt
    <3>3. CASE Own(r, n) # NoSymbol
      BY <2>4, <3>1, <3>3, FoundAt, FoundAtNext
    <3>4. CASE Own(r, n) = NoSymbol
      <4>1. PICK q \in uses[r] : external[q][n] = s
        BY <3>1, <3>4, FoundAt
      <4>2. q \in Packages
        BY <2>3 DEF IInv, Typed, Links
      <4>3. q # p
        <5> SUFFICES ASSUME q = p PROVE FALSE
          OBVIOUS
        <5>1. Own(p, n) = s
          BY <3>2, <4>1 DEF Own
        <5>2. Found(p, n) = {s}
          BY <3>2, <5>1, FoundAt
        <5>3. QED
          BY <2>3, <5>2
      <4>4. external'[q][n] = s /\ q \in uses'[r]
        BY <1>1, <2>4, <4>1, <4>2, <4>3 DEF Did
      <4>5. QED
        BY <2>4, <3>2, <3>4, <4>4, FoundAtNext
    <3>5. QED
      BY <3>3, <3>4
  <2>7. Slot(external, r, n)' = {}
    BY <2>1, <2>2, <2>4 DEF Slot
  <2>8. QED
    BY <1>3, <2>1, <2>2, <2>4, <2>5, <2>6, <2>7
<1>6. UseOK'
  <2> SUFFICES ASSUME call.op = "use"
               PROVE  /\ call.of \notin uses'[call.in] /\ call.of # call.in
                      /\ \A c \in call'.left : c[1] = call.in /\ Slot(external, call.of, c[2])' # {}
    BY <1>3 DEF UseOK
  <2>1. /\ call.of \notin uses[call.in] /\ call.of # call.in
        /\ \A c \in call.left : c[1] = call.in /\ Slot(external, call.of, c[2]) # {}
    BY DEF CallInv, UseOK
  <2>2. p = call.in
    <3> DEFINE c == <<p, n>>
    <3>1. c \in call.left /\ c[1] = p
      BY <1>1
    <3> HIDE DEF c
    <3>2. QED
      BY <2>1, <3>1
  <2>3. call.of \in Packages /\ call.of # p
    BY <1>2, <2>1, <2>2 DEF IInv, CallOK, Typed
  <2>4. \A m \in Names : external'[call.of][m] = external[call.of][m]
    BY <1>1, <2>3 DEF Did
  <2>5. QED
    BY <1>1, <1>3, <1>4, <2>1, <2>4 DEF Slot, Did, links
<1>7. LeftOpen'
  <2> SUFFICES ASSUME NEW c \in call.left, c # <<p, n>>
               PROVE  Own(c[1], c[2])' \notin shadowing'[c[1]]
    BY <1>3 DEF LeftOpen
  <2>1. c[1] \in Packages /\ c[2] \in Names /\ (c[1] # p \/ c[2] # n)
    BY <1>4
  <2>2. Own(c[1], c[2]) \notin shadowing[c[1]]
    BY DEF CallInv, LeftOpen
  <2>3. QED
    BY <1>1, <2>1, <2>2 DEF Did
<1>8. QED
  BY <1>3, <1>5, <1>6, <1>7 DEF CallInv

\* A clash is with a symbol that does not shadow.
LEMMA ClashOpen ==
  ASSUME IInv, NEW p \in Packages, NEW n \in Names, NEW s, Clash(p, n, s)
  PROVE  Own(p, n) \notin shadowing[p]
<1>1. Own(p, n) # NoSymbol => Found(p, n) = {Own(p, n)}
  BY FoundAt
<1>2. NoSymbol \notin shadowing[p]
  BY NoSymbolOutside DEF IInv, Typed
<1>3. QED
  BY <1>1, <1>2 DEF Clash

\* EXPORT begins, or is done.
LEMMA ExportBegins ==
  ASSUME IInv, NEW p \in live, NEW s \in Symbols, ExportNow(p, s)
  PROVE  CallInv'
<1>1. CASE ExportConflicts(p, s) = {}
  BY <1>1 DEF ExportNow, NoCall, CallInv, ExportOK, UseOK, LeftOpen
<1>2. CASE ExportConflicts(p, s) # {}
  <2> DEFINE n == NameOf[s]
  <2>1. /\ call' = [op |-> "export", in |-> p, of |-> s, left |-> ExportConflicts(p, s)]
        /\ UNCHANGED <<tables, links>>
        /\ Found(p, n) = {s} /\ Slot(external, p, n) = {}
    BY <1>2 DEF ExportNow
  <2>2. /\ call'.op = "export" /\ call'.in = p /\ call'.of = s /\ call'.left = ExportConflicts(p, s)
    BY <2>1
  <2>3. \A q, m : /\ Found(q, m)' = Found(q, m) /\ Own(q, m)' = Own(q, m)
                  /\ Slot(external, q, m)' = Slot(external, q, m)
    BY <2>1 DEF tables, links, Found, Inherited, Slot, Own
  <2>4. ExportOK'
    <3>1. \A c \in call'.left : c[1] \in usedBy[p] /\ c[2] = n
      BY <2>2 DEF ExportConflicts
    <3>2. QED
      BY <2>1, <2>2, <2>3, <3>1 DEF ExportOK, links
  <2>5. UseOK'
    BY <2>2 DEF UseOK
  <2>6. LeftOpen'
    <3>1. ASSUME NEW c \in ExportConflicts(p, s) PROVE Own(c[1], c[2]) \notin shadowing[c[1]]
      <4>1. c[1] \in Packages /\ c[2] \in Names /\ Clash(c[1], c[2], s)
        BY PackageAssumption DEF ExportConflicts, IInv, Typed, Links
      <4>2. QED
        BY <4>1, ClashOpen
    <3>2. QED
      BY <2>1, <2>2, <2>3, <3>1 DEF LeftOpen, tables
  <2>7. QED
    BY <2>4, <2>5, <2>6 DEF CallInv
<1>3. QED
  BY <1>1, <1>2

\* USE-PACKAGE begins, or is done.
LEMMA UseBegins ==
  ASSUME IInv, NEW p \in live, NEW q \in live, UseNow(p, q)
  PROVE  CallInv'
<1>1. CASE UseConflicts(p, q) = {}
  BY <1>1 DEF UseNow, NoCall, CallInv, ExportOK, UseOK, LeftOpen
<1>2. CASE UseConflicts(p, q) # {}
  <2>1. /\ call' = [op |-> "use", in |-> p, of |-> q, left |-> UseConflicts(p, q)]
        /\ UNCHANGED <<tables, links>> /\ q \notin uses[p]
    BY <1>2 DEF UseNow
  <2>2. /\ call'.op = "use" /\ call'.in = p /\ call'.of = q /\ call'.left = UseConflicts(p, q)
    BY <2>1
  <2>3. \A r, m : /\ Own(r, m)' = Own(r, m)
                  /\ Slot(external, r, m)' = Slot(external, r, m)
    BY <2>1 DEF tables, Slot, Own
  <2>4. ASSUME NEW c \in UseConflicts(p, q)
        PROVE  /\ c[1] = p /\ c[2] \in Names
               /\ \E s \in Slot(external, q, c[2]) : Clash(p, c[2], s)
    BY DEF UseConflicts
  <2>5. q # p
    <3>1. PICK c \in UseConflicts(p, q) : TRUE
      BY <1>2
    <3>2. PICK s \in Slot(external, q, c[2]) : Clash(p, c[2], s)
      BY <2>4
    <3>3. q = p => Found(p, c[2]) = {s}
      BY DEF Found, Slot
    <3>4. QED
      BY <3>2, <3>3 DEF Clash
  <2>6. UseOK'
    <3>1. \A c \in call'.left : c[1] = p /\ Slot(external, q, c[2]) # {}
      BY <2>2, <2>4
    <3>2. QED
      BY <2>1, <2>2, <2>3, <2>5, <3>1 DEF UseOK, links
  <2>7. ExportOK'
    BY <2>2 DEF ExportOK
  <2>8. LeftOpen'
    <3>1. ASSUME NEW c \in UseConflicts(p, q) PROVE Own(c[1], c[2]) \notin shadowing[c[1]]
      <4>1. c[1] = p /\ c[2] \in Names /\ p \in Packages
        BY <2>4 DEF IInv, Typed
      <4>2. PICK s \in Slot(external, q, c[2]) : Clash(p, c[2], s)
        BY <2>4
      <4>3. QED
        BY <4>1, <4>2, ClashOpen
    <3>2. QED
      BY <2>1, <2>2, <2>3, <3>1 DEF LeftOpen, tables
  <2>9. QED
    BY <2>6, <2>7, <2>8 DEF CallInv
<1>3. QED
  BY <1>1, <1>2

\* A call that starts over does so with what it began with.
LEMMA StartsOver ==
  ASSUME IInv, StartOver
  PROVE  /\ call.left = {}
         /\ \/ call.op = "export" /\ call.in \in live /\ call.of \in Symbols /\ ExportNow(call.in, call.of)
            \/ call.op = "use" /\ call.in \in live /\ call.of \in live /\ UseNow(call.in, call.of)
BY DEF StartOver, Calm, IInv, CallOK, Typed

\* Every step keeps the call in order.
LEMMA NextCall == IInv /\ CallInv /\ [Next]_vars => CallInv'
<1> SUFFICES ASSUME IInv, CallInv, [Next]_vars PROVE CallInv'
  OBVIOUS
<1>1. ASSUME call' = NoCall PROVE CallInv'
  BY <1>1 DEF NoCall, CallInv, ExportOK, UseOK, LeftOpen
<1>2. CASE UNCHANGED vars
  BY <1>2 DEF vars, CallInv, ExportOK, UseOK, LeftOpen, Found, Inherited, Slot, Own
<1>3. ASSUME NEW p \in Packages, NEW n \in Names, Intern(p, n) \/ Shadow(p, n) PROVE CallInv'
  BY <1>1, <1>3 DEF Intern, Shadow, Calm
<1>4. ASSUME NEW p \in Packages, NEW s \in Symbols,
             Import(p, s) \/ ShadowingImport(p, s) \/ Unintern(p, s) \/ Unexport(p, s)
      PROVE  CallInv'
  BY <1>1, <1>4 DEF Import, ShadowingImport, Unintern, Unexport, Calm
<1>5. ASSUME NEW p \in Packages, NEW s \in Symbols, Export(p, s) PROVE CallInv'
  BY <1>5, ExportBegins DEF Export
<1>6. ASSUME NEW p \in Packages, NEW q \in Packages, UsePackage(p, q) PROVE CallInv'
  BY <1>6, UseBegins DEF UsePackage
<1>7. ASSUME NEW p \in Packages, NEW q \in Packages, UnusePackage(p, q) \/ DeletePackage(p) PROVE CallInv'
  BY <1>1, <1>7 DEF UnusePackage, DeletePackage, Calm
<1>8. ASSUME NEW p \in Packages, NEW n \in Names, KeepOld(p, n) \/ TakeNew(p, n) PROVE CallInv'
  BY <1>8, ChoiceKeepsCall
<1>9. ASSUME NEW p \in Packages, NEW n \in Names, Fail(p, n) \/ Abort PROVE CallInv'
  BY <1>1, <1>9 DEF Fail, Abort
<1>10. CASE StartOver
  BY <1>10, StartsOver, ExportBegins, UseBegins
<1>11. CASE Abort
  BY <1>1, <1>11 DEF Abort
<1>12. CASE \E p \in Packages : DeletePackage(p)
  BY <1>1, <1>12 DEF DeletePackage, Calm
<1>13. QED
  BY <1>2, <1>3, <1>4, <1>5, <1>6, <1>7, <1>8, <1>9, <1>10, <1>11, <1>12 DEF Next, Resolve

\* EXPORT and USE-PACKAGE can always start over: no restart the user chose, for
\* however many conflicts, takes the symbol to be exported out of reach, exports
\* it, or makes the package used already.  For programs that unexport only what is
\* external.
THEOREM CallsCanStartOver == ~UnexportsAny => (Spec => []Ready)
<1> SUFFICES ASSUME ~UnexportsAny PROVE Spec => []Ready
  OBVIOUS
<1>1. Init => IInv /\ CallInv
  BY InitIInv DEF Init, NoCall, CallInv, ExportOK, UseOK, LeftOpen
<1>2. IInv /\ CallInv /\ [Next]_vars => (IInv /\ CallInv)'
  BY NextIInv, NextCall
<1>3. CallInv => Ready
  BY DEF CallInv, ExportOK, UseOK, Ready
<1>4. QED
  BY <1>1, <1>2, <1>3, PTL DEF Spec

\* A conflict that is left is in dispute.
LEMMA LeftDisputed ==
  ASSUME IInv, CallInv, NEW p \in Packages, NEW n \in Names,
         <<p, n>> \in call.left, Conflicting(p, n)
  PROVE  <<p, n>> \in Disputed
<1> DEFINE c == <<p, n>>
<1>1. c \in call.left /\ c[1] = p /\ c[2] = n
  OBVIOUS
<1>2. call # NoCall
  BY DEF NoCall
<1>3. ASSUME NEW s, New(n) = {s} PROVE Clash(p, n, s)
  <2>1. Own(p, n) \notin shadowing[p]
    <3> HIDE DEF c
    <3>1. QED
      BY <1>1 DEF CallInv, LeftOpen
  <2>2. ~(Found(p, n) \subseteq shadowing[p])
    <3>1. PICK t \in Found(p, n) : TRUE
      BY DEF Conflicting
    <3>2. CASE Own(p, n) # NoSymbol
      BY <2>1, <3>1, <3>2, FoundAt
    <3>3. CASE Own(p, n) = NoSymbol
      <4>1. t \in Symbols /\ NameOf[t] = n /\ t # NoSymbol
        BY <3>1, <3>3, FoundAt, NoSymbolOutside DEF IInv, Named, Typed, Tables, Links
      <4>2. t \notin shadowing[p]
        BY <3>3, <4>1 DEF IInv, ShadowsPresent
      <4>3. QED
        BY <3>1, <4>2
    <3>4. QED
      BY <3>2, <3>3
  <2>3. QED
    BY <1>3, <2>2 DEF Clash, Conflicting
<1>4. CASE call.op = "export"
  <2>1. p \in usedBy[call.in] /\ n = NameOf[call.of]
    <3> HIDE DEF c
    <3>1. QED
      BY <1>1, <1>4 DEF CallInv, ExportOK
  <2>2. Clash(p, n, call.of)
    BY <1>3, <1>4 DEF New
  <2>3. QED
    BY <1>4, <2>1, <2>2 DEF Disputed, ExportConflicts
<1>5. CASE call.op = "use"
  <2>1. p = call.in /\ Slot(external, call.of, n) # {}
    <3> HIDE DEF c
    <3>1. QED
      BY <1>1, <1>5 DEF CallInv, UseOK
  <2>2. PICK s : Slot(external, call.of, n) = {s} /\ Found(call.of, n) = {s}
    BY <2>1 DEF Slot, Found
  <2>3. Clash(p, n, s)
    BY <1>3, <1>5, <2>2 DEF New
  <2>4. QED
    BY <1>5, <2>1, <2>2, <2>3 DEF Disputed, UseConflicts
<1>6. QED
  BY <1>2, <1>4, <1>5 DEF IInv, CallOK

\* A choice puts no place in dispute, and no symbol of its own into one that is.
LEMMA NothingNewDisputed ==
  ASSUME IInv, CallInv, NEW p \in Packages, NEW n \in Names, KeepOld(p, n) \/ TakeNew(p, n)
  PROVE  /\ Disputed' \subseteq Disputed /\ Entrenched' \subseteq Entrenched
         /\ Disputed' # Disputed \/ Entrenched' # Entrenched
<1>1. <<p, n>> \in call.left /\ Conflicting(p, n) /\ Did(p, n)
  BY ChoiceDoes
<1>2. <<p, n>> \in Disputed
  BY <1>1, LeftDisputed
<1>3. call # NoCall
  BY <1>1 DEF NoCall
<1> SUFFICES ASSUME NEW k, NEW r, NEW o, call.op = k, call.in = r, call.of = o
             PROVE  /\ Disputed' \subseteq Disputed /\ Entrenched' \subseteq Entrenched
                    /\ Disputed' # Disputed \/ Entrenched' # Entrenched
  OBVIOUS
<1>4. call'.op = k /\ call'.in = r /\ call'.of = o /\ r \in Packages
  BY <1>3, ChoiceKeepsCall DEF IInv, CallOK, Typed
<1>5. uses' = uses /\ usedBy' = usedBy
  BY <1>1 DEF Did, links
<1>6. ASSUME NEW c \in Disputed'
      PROVE  c \in Disputed /\ \E q \in Packages, m \in Names : \E s : c = <<q, m>> /\ Clash(q, m, s)'
  <2>1. CASE k = "export"
    <3>1. Disputed' = {d \in usedBy[r] \X {NameOf[o]} : Clash(d[1], d[2], o)'}
      BY <1>4, <1>5, <2>1 DEF Disputed, ExportConflicts, Clash, Found, Inherited, Slot
    <3>2. Disputed = {d \in usedBy[r] \X {NameOf[o]} : Clash(d[1], d[2], o)}
      BY <2>1 DEF Disputed, ExportConflicts
    <3>3. \A q \in usedBy[r] : q \in Packages
      BY <1>4 DEF IInv, Typed, Links
    <3>4. o \in Symbols
      BY <2>1, <1>3 DEF IInv, CallOK, Typed
    <3>5. c \in usedBy[r] \X {NameOf[o]} /\ Clash(c[1], c[2], o)'
      BY <1>6, <3>1
    <3>6. QED
      <4>2. PICK q, m : c = <<q, m>> /\ q \in usedBy[r] /\ m = NameOf[o] /\ Clash(q, m, o)'
        BY <3>5
      <4>3. q \in Packages /\ m \in Names
        BY <3>3, <3>4, <4>2, PackageAssumption
      <4>4. Clash(q, m, o) \/ c = <<p, n>>
        BY <1>1, <4>2, <4>3, ClashAfter
      <4>5. QED
        BY <1>2, <3>2, <4>2, <4>3, <4>4
  <2>2. CASE k = "use"
    <3>1. Disputed' = {d \in {r} \X Names : \E s \in Slot(external, o, d[2])' : Clash(r, d[2], s)'}
      BY <1>4, <2>2 DEF Disputed, UseConflicts, Clash, Found, Inherited, Slot
    <3>2. Disputed = {d \in {r} \X Names : \E s \in Slot(external, o, d[2]) : Clash(r, d[2], s)}
      BY <2>2 DEF Disputed, UseConflicts
    <3>3. ASSUME NEW m \in Names PROVE Slot(external, o, m)' \subseteq Slot(external, o, m)
      <4>1. o \in Packages
        BY <1>3, <2>2 DEF IInv, CallOK, Typed
      <4>2. external'[o][m] \in {external[o][m], NoSymbol}
        BY <1>1, <4>1 DEF Did
      <4>3. QED
        BY <4>2 DEF Slot
    <3>4. QED
      <4>1. PICK m \in Names : c = <<r, m>> /\ \E s \in Slot(external, o, m)' : Clash(r, m, s)'
        BY <1>6, <3>1
      <4>2. PICK s \in Slot(external, o, m)' : Clash(r, m, s)'
        BY <4>1
      <4>3. s \in Slot(external, o, m)
        BY <3>3, <4>2
      <4>4. Clash(r, m, s) \/ c = <<p, n>>
        BY <1>1, <1>4, <4>1, <4>2, ClashAfter
      <4>5. QED
        BY <1>2, <1>4, <3>2, <4>1, <4>2, <4>3, <4>4
  <2>3. CASE k # "export" /\ k # "use"
    BY <1>4, <1>6, <2>3 DEF Disputed
  <2>4. QED
    BY <2>1, <2>2, <2>3
<1>7. CASE Own(p, n)' # NoSymbol
  <2>1. <<p, n>> \notin Disputed'
    <3> SUFFICES ASSUME NEW s, Clash(p, n, s)' PROVE FALSE
      BY <1>6
    <3>1. Found(p, n)' = {Own(p, n)'} /\ Own(p, n)' \in shadowing'[p]
      BY <1>1, <1>7, FoundAtNext DEF Did
    <3>2. QED
      BY <3>1 DEF Clash
  <2>2. ASSUME NEW c \in Entrenched' PROVE c \in Entrenched
    <3>1. c \in Disputed' /\ Present(c[1], c[2])' # {}
      BY <2>2 DEF Entrenched
    <3>2. PICK q \in Packages, m \in Names : c = <<q, m>>
      BY <1>6, <3>1
    <3>3. c \in Disputed /\ (q # p \/ m # n) /\ Present(q, m)' # {}
      BY <1>6, <2>1, <3>1, <3>2
    <3>4. Present(q, m) # {}
      BY <1>1, <3>3, OwnPresent DEF Did
    <3>5. QED
      BY <3>2, <3>3, <3>4 DEF Entrenched
  <2>3. QED
    BY <1>2, <1>6, <2>1, <2>2
<1>8. CASE Own(p, n)' = NoSymbol
  <2>1. <<p, n>> \in Entrenched
    BY <1>1, <1>2, <1>8, OwnPresent DEF Did, Entrenched
  <2>2. ASSUME NEW c \in Entrenched' PROVE c \in Entrenched /\ c # <<p, n>>
    <3>1. c \in Disputed' /\ Present(c[1], c[2])' # {}
      BY <2>2 DEF Entrenched
    <3>2. PICK q \in Packages, m \in Names : c = <<q, m>>
      BY <1>6, <3>1
    <3>3. c \in Disputed /\ Present(q, m)' # {}
      BY <1>6, <3>1, <3>2
    <3>4. Own(q, m)' # NoSymbol /\ (q # p \/ m # n)
      BY <1>8, <3>3, OwnPresent
    <3>5. Present(q, m) # {}
      BY <1>1, <3>4, OwnPresent DEF Did
    <3>6. QED
      BY <3>2, <3>3, <3>4, <3>5 DEF Entrenched
  <2>3. QED
    BY <1>6, <2>1, <2>2
<1>9. QED
  BY <1>7, <1>8

\* A call that goes on starts over with the places in dispute there are, or comes
\* nearer to its end: there are fewer, or fewer with a symbol of their own.
Lessens ==
  ~Calm /\ ~Calm' =>
    /\ call'.op = call.op /\ call'.in = call.in /\ call'.of = call.of
    /\ \/ /\ call.left = {} /\ call'.left # {}
          /\ Disputed' = Disputed /\ Entrenched' = Entrenched
       \/ /\ Disputed' \subseteq Disputed /\ Entrenched' \subseteq Entrenched
          /\ Disputed' # Disputed \/ Entrenched' # Entrenched

\* What is in dispute depends on the tables, the links and what the call is for.
LEMMA SameDispute ==
  ASSUME UNCHANGED <<tables, links>>, call'.op = call.op, call'.in = call.in, call'.of = call.of
  PROVE  Disputed' = Disputed /\ Entrenched' = Entrenched
<1> SUFFICES ASSUME NEW k, NEW r, NEW o, call.op = k, call.in = r, call.of = o
             PROVE  Disputed' = Disputed /\ Entrenched' = Entrenched
  OBVIOUS
<1>1. call'.op = k /\ call'.in = r /\ call'.of = o
  OBVIOUS
<1>2. \A q, m : /\ Found(q, m)' = Found(q, m) /\ Present(q, m)' = Present(q, m)
                /\ Slot(external, q, m)' = Slot(external, q, m)
  BY DEF tables, links, Found, Inherited, Present, Slot
<1>3. shadowing' = shadowing /\ uses' = uses /\ usedBy' = usedBy
  BY DEF tables, links
<1>4. Disputed' = Disputed
  <2>1. \A q, m, s : Clash(q, m, s)' <=> Clash(q, m, s)
    BY <1>2, <1>3 DEF Clash
  <2>2. CASE k = "export"
    <3>1. Disputed' = {c \in usedBy'[r] \X {NameOf[o]} : Clash(c[1], c[2], o)'}
      BY <1>1, <2>2 DEF Disputed, ExportConflicts, Clash, Found, Inherited, Slot
    <3>2. QED
      BY <1>3, <2>1, <2>2, <3>1 DEF Disputed, ExportConflicts
  <2>3. CASE k = "use"
    <3>1. Disputed' = {c \in {r} \X Names : \E s \in Slot(external, o, c[2])' : Clash(r, c[2], s)'}
      BY <1>1, <2>3 DEF Disputed, UseConflicts, Clash, Found, Inherited, Slot
    <3>2. Disputed = {c \in {r} \X Names : \E s \in Slot(external, o, c[2]) : Clash(r, c[2], s)}
      BY <2>3 DEF Disputed, UseConflicts
    <3>3. \A c \in {r} \X Names : Slot(external, o, c[2])' = Slot(external, o, c[2])
      BY <1>2
    <3>4. \A c \in {r} \X Names : \A s : Clash(r, c[2], s)' <=> Clash(r, c[2], s)
      BY <2>1
    <3>5. QED
      BY <3>1, <3>2, <3>3, <3>4
  <2>4. CASE k # "export" /\ k # "use"
    BY <1>1, <2>4 DEF Disputed
  <2>5. QED
    BY <2>2, <2>3, <2>4
<1>5. QED
  BY <1>2, <1>4 DEF Entrenched

\* A call that starts over and goes on found the conflicts there are.
LEMMA StartOverLessens == ASSUME IInv, StartOver, ~Calm' PROVE Lessens
<1>1. call.left = {}
  BY DEF StartOver
<1>2. CASE call.op = "export" /\ ExportNow(call.in, call.of)
  <2>1. /\ call' = [op |-> "export", in |-> call.in, of |-> call.of,
                    left |-> ExportConflicts(call.in, call.of)]
        /\ ExportConflicts(call.in, call.of) # {} /\ UNCHANGED <<tables, links>>
    BY <1>2 DEF ExportNow, Calm, NoCall
  <2>2. call'.op = call.op /\ call'.in = call.in /\ call'.of = call.of /\ call'.left # {}
    BY <1>2, <2>1
  <2>3. QED
    BY <1>1, <2>1, <2>2, SameDispute DEF Lessens
<1>3. CASE call.op = "use" /\ UseNow(call.in, call.of)
  <2>1. /\ call' = [op |-> "use", in |-> call.in, of |-> call.of,
                    left |-> UseConflicts(call.in, call.of)]
        /\ UseConflicts(call.in, call.of) # {} /\ UNCHANGED <<tables, links>>
    BY <1>3 DEF UseNow, Calm, NoCall
  <2>2. call'.op = call.op /\ call'.in = call.in /\ call'.of = call.of /\ call'.left # {}
    BY <1>3, <2>1
  <2>3. QED
    BY <1>1, <2>1, <2>2, SameDispute DEF Lessens
<1>4. QED
  BY <1>2, <1>3, StartsOver

\* EXPORT and USE-PACKAGE do not go round, but for the fairness that makes the user
\* choose: however the conflicts are resolved, each choice leaves fewer places in
\* dispute, or the same with one less that has a symbol of its own, and a call
\* starts over only with all of its conflicts chosen for.  For programs that
\* unexport only what is external.
THEOREM ChoicesLessen == ~UnexportsAny => (Spec => [][Lessens]_vars)
<1> SUFFICES ASSUME ~UnexportsAny PROVE Spec => [][Lessens]_vars
  OBVIOUS
<1>1. Init => IInv /\ CallInv
  BY InitIInv DEF Init, NoCall, CallInv, ExportOK, UseOK, LeftOpen
<1>2. IInv /\ CallInv /\ [Next]_vars => (IInv /\ CallInv)'
  BY NextIInv, NextCall
<1>3. IInv /\ CallInv /\ [Next]_vars => [Lessens]_vars
  <2> SUFFICES ASSUME IInv, CallInv, Next, ~Calm, ~Calm' PROVE Lessens
    BY DEF Lessens
  <2>1. CASE StartOver
    BY <2>1, StartOverLessens
  <2>2. ASSUME NEW p \in Packages, NEW n \in Names, KeepOld(p, n) \/ TakeNew(p, n) PROVE Lessens
    BY <2>2, ChoiceKeepsCall, NothingNewDisputed DEF Lessens
  <2>3. ASSUME NEW p \in Packages, NEW n \in Names, Fail(p, n) PROVE FALSE
    BY <2>3 DEF Fail, Calm
  <2>4. CASE Abort
    BY <2>4 DEF Abort, Calm
  <2>5. ASSUME NEW p \in Packages
        PROVE  /\ \A n \in Names : ~Intern(p, n) /\ ~Shadow(p, n)
               /\ \A s \in Symbols : /\ ~Import(p, s) /\ ~ShadowingImport(p, s) /\ ~Unintern(p, s)
                                     /\ ~Export(p, s) /\ ~Unexport(p, s)
               /\ \A q \in Packages : ~UsePackage(p, q) /\ ~UnusePackage(p, q)
               /\ ~DeletePackage(p)
    BY DEF Intern, Shadow, Import, ShadowingImport, Unintern, Export, Unexport, UsePackage,
           UnusePackage, DeletePackage
  <2>6. QED
    BY <2>1, <2>2, <2>3, <2>4, <2>5 DEF Next, Resolve
<1>4. QED
  BY <1>1, <1>2, <1>3, PTL DEF Spec

-----------------------------------------------------------------------------
\* Any program, whatever it unexports.

Entries == [Packages -> [Names -> Symbols \cup {NoSymbol}]]

\* What a call in progress is for.
CallFor == \/ call = NoCall
           \/ call.op = "export" /\ call.in \in live /\ call.of \in Symbols
           \/ call.op = "use" /\ call.in \in live /\ call.of \in live

WeakInv == /\ live \subseteq Packages
           /\ internal \in Entries /\ external \in Entries
           /\ uses \in Links /\ usedBy \in Links
           /\ CallFor /\ UsesMirror /\ OneTable

\* A name that gets a symbol in one table has none in the other: the one it
\* gets is new or imported, or replaces what there was.
LEMMA WithStep ==
  ASSUME NEW p \in Packages, NEW s \in Symbols, WeakInv,
         internal' = With(internal, p, s),
         \/ external' = Without(external, p, NameOf[s])
         \/ external' = external /\ external[p][NameOf[s]] = NoSymbol
  PROVE  internal' \in Entries /\ external' \in Entries /\ OneTable'
<1>1. NameOf[s] \in Names /\ internal \in Entries /\ external \in Entries
  BY PackageAssumption DEF WeakInv
<1>2. /\ internal' \in Entries
      /\ \A q \in Packages, n \in Names : q # p \/ n # NameOf[s] => internal'[q][n] = internal[q][n]
  BY <1>1 DEF With, Entries
<1>3. /\ external' \in Entries /\ external'[p][NameOf[s]] = NoSymbol
      /\ \A q \in Packages, n \in Names : external'[q][n] \in {external[q][n], NoSymbol}
  <2>1. CASE external' = Without(external, p, NameOf[s])
    BY <1>1, <2>1 DEF Without, Entries
  <2>2. CASE external' = external /\ external[p][NameOf[s]] = NoSymbol
    BY <1>1, <2>2
  <2>3. QED
    BY <2>1, <2>2
<1>4. OneTable'
  BY <1>2, <1>3 DEF WeakInv, OneTable
<1>5. QED
  BY <1>2, <1>3, <1>4

\* A step that keeps the links and what is live, and the call or ends it.
LEMMA WeakTables ==
  ASSUME WeakInv, UNCHANGED <<links, live>>, CallFor',
         internal' \in Entries, external' \in Entries, OneTable'
  PROVE  WeakInv'
BY DEF WeakInv, links, Links, UsesMirror

\* intern, shadow.
LEMMA WeakCreate ==
  ASSUME WeakInv, NEW p \in Packages, NEW n \in Names, NEW s \in Fresh(n), Create(p, s),
         Slot(external, p, n) = {}, UNCHANGED <<external, links, live, call>>
  PROVE  WeakInv'
<1>1. s \in Symbols /\ NameOf[s] = n /\ internal' = With(internal, p, s) /\ external[p][n] = NoSymbol
  BY DEF Fresh, Create, Slot
<1>2. CallFor'
  BY DEF WeakInv, CallFor
<1>3. QED
  BY <1>1, <1>2, WithStep, WeakTables

\* shadowing-import.
LEMMA WeakShadowing ==
  ASSUME WeakInv, NEW p \in Packages, NEW s \in Symbols, ImportShadowing(p, s), CallFor'
  PROVE  WeakInv'
BY WithStep, WeakTables DEF ImportShadowing

\* unintern.
LEMMA WeakTakeOut ==
  ASSUME WeakInv, NEW p \in Packages, NEW s \in Symbols, TakeOut(p, s), CallFor'
  PROVE  WeakInv'
<1> DEFINE S == Symbols \cup {NoSymbol}
<1>1. internal \in [Packages -> [Names -> S]] /\ external \in [Packages -> [Names -> S]] /\ NoSymbol \in S
  BY DEF WeakInv, Entries
<1>2. internal' \in Entries /\ external' \in Entries
  <2>1. Entries = [Packages -> [Names -> S]]
    BY DEF Entries
  <2>2. internal' = Dropped(internal, p, s) /\ external' = Dropped(external, p, s)
    BY DEF TakeOut
  <2> HIDE DEF S
  <2>3. QED
    BY <1>1, <2>1, <2>2, DroppedAt
<1>3. \A q \in Packages, n \in Names : /\ internal'[q][n] \in {internal[q][n], NoSymbol}
                                      /\ external'[q][n] \in {external[q][n], NoSymbol}
  <2>1. internal' = Dropped(internal, p, s) /\ external' = Dropped(external, p, s)
    BY DEF TakeOut
  <2> HIDE DEF S
  <2>2. QED
    BY <1>1, <2>1, DroppedAt
<1>4. OneTable'
  BY <1>3 DEF WeakInv, OneTable
<1>5. QED
  BY <1>2, <1>4, WeakTables DEF TakeOut

\* EXPORT, when it is called or starts over.
LEMMA WeakExport ==
  ASSUME WeakInv, NEW p \in live, NEW s \in Symbols, ExportNow(p, s)
  PROVE  WeakInv'
<1>1. p \in Packages /\ NameOf[s] \in Names /\ internal \in Entries /\ external \in Entries
  BY PackageAssumption DEF WeakInv
<1>2. CASE external' = With(external, p, s) /\ internal' = Without(internal, p, NameOf[s]) /\ call' = NoCall
  <2>1. internal' \in Entries /\ external' \in Entries
    BY <1>1, <1>2 DEF With, Without, Entries
  <2>2. \A q \in Packages, n \in Names :
          /\ internal'[q][n] \in {internal[q][n], NoSymbol}
          /\ q # p \/ n # NameOf[s] => external'[q][n] = external[q][n]
          /\ internal'[p][NameOf[s]] = NoSymbol
    BY <1>1, <1>2 DEF With, Without, Entries
  <2>3. OneTable'
    BY <2>2 DEF WeakInv, OneTable
  <2>4. QED
    BY <1>2, <2>1, <2>3, WeakTables DEF ExportNow, CallFor, NoCall
<1>3. CASE /\ call' = [op |-> "export", in |-> p, of |-> s, left |-> ExportConflicts(p, s)]
           /\ UNCHANGED <<internal, external, links, live>>
  <2>1. CallFor'
    BY <1>3 DEF CallFor
  <2>2. OneTable'
    BY <1>3 DEF WeakInv, OneTable
  <2>3. QED
    BY <1>1, <1>3, <2>1, <2>2, WeakTables
<1>4. QED
  BY <1>2, <1>3 DEF ExportNow, tables

\* USE-PACKAGE, when it is called or starts over.
LEMMA WeakUse ==
  ASSUME WeakInv, NEW p \in live, NEW q \in live, UseNow(p, q)
  PROVE  WeakInv'
<1>1. p \in Packages /\ q \in Packages /\ UNCHANGED <<internal, external, live>>
  BY DEF WeakInv, UseNow, tables
<1>2. OneTable'
  BY <1>1 DEF WeakInv, OneTable
<1>3. CASE /\ uses' = [uses EXCEPT ![p] = @ \cup {q}]
           /\ usedBy' = [usedBy EXCEPT ![q] = @ \cup {p}]
           /\ call' = NoCall
  <2>1. uses' \in Links' /\ usedBy' \in Links' /\ UsesMirror'
    BY <1>1, <1>3 DEF WeakInv, Links, UsesMirror
  <2>2. QED
    BY <1>1, <1>2, <1>3, <2>1 DEF WeakInv, CallFor, Entries, NoCall
<1>4. CASE /\ call' = [op |-> "use", in |-> p, of |-> q, left |-> UseConflicts(p, q)]
           /\ UNCHANGED links
  <2>1. CallFor'
    BY <1>1, <1>4 DEF CallFor
  <2>2. QED
    BY <1>1, <1>2, <1>4, <2>1, WeakTables DEF WeakInv
<1>5. QED
  BY <1>3, <1>4 DEF UseNow

\* A choice settles a place of the call, which goes on.
LEMMA WeakSettled ==
  ASSUME WeakInv, NEW p, NEW n, <<p, n>> \in call.left, Settled(p, n), live' = live
  PROVE  CallFor'
<1>1. call # NoCall
  BY DEF NoCall
<1>2. QED
  BY <1>1 DEF WeakInv, CallFor, Settled

\* What findSymbol gives is a symbol.
LEMMA WeakFound ==
  ASSUME WeakInv, NEW p \in Packages, NEW n \in Names
  PROVE  Found(p, n) \subseteq Symbols
<1>1. \A q \in Packages : Slot(external, q, n) \subseteq Symbols /\ Slot(internal, q, n) \subseteq Symbols
  BY DEF WeakInv, Entries, Slot
<1>2. uses[p] \subseteq Packages
  BY DEF WeakInv, Links
<1>3. QED
  BY <1>1, <1>2 DEF Found, Inherited

\* The restarts of a conflict.
LEMMA WeakChoice ==
  ASSUME WeakInv, NEW p \in Packages, NEW n \in Names, KeepOld(p, n) \/ TakeNew(p, n)
  PROVE  WeakInv'
<1>1. <<p, n>> \in call.left /\ Settled(p, n) /\ live' = live
  BY DEF KeepOld, TakeNew, ImportShadowing, TakeOut, ShadowName
<1>2. CallFor'
  BY <1>1, WeakSettled
<1>3. New(n) \subseteq Symbols
  <2>1. call # NoCall
    BY <1>1 DEF NoCall
  <2>2. CASE call.op = "export"
    BY <2>1, <2>2 DEF WeakInv, CallFor, New
  <2>3. CASE call.op = "use"
    <3>1. call.of \in Packages
      BY <2>1, <2>3 DEF WeakInv, CallFor
    <3>2. QED
      BY <2>3, <3>1, WeakFound DEF New
  <2>4. QED
    BY <2>1, <2>2, <2>3 DEF WeakInv, CallFor
<1>4. CASE \E s \in Symbols : ImportShadowing(p, s) \/ TakeOut(p, s)
  BY <1>2, <1>4, WeakShadowing, WeakTakeOut
<1>5. CASE ShadowName(p, n) /\ Present(p, n) # {}
  <2>1. UNCHANGED <<internal, external, links, live>>
    BY <1>5 DEF ShadowName
  <2>2. internal' \in Entries /\ external' \in Entries /\ OneTable'
    BY <2>1 DEF WeakInv, OneTable
  <2>3. QED
    BY <1>2, <2>1, <2>2, WeakTables
<1>6. QED
  BY <1>3, <1>4, <1>5, WeakFound DEF KeepOld, TakeNew

\* Every step of any program keeps WeakInv.
LEMMA NextWeakInv == WeakInv /\ [Next]_vars => WeakInv'
<1> SUFFICES ASSUME WeakInv, [Next]_vars PROVE WeakInv'
  OBVIOUS
<1>1. CASE UNCHANGED <<tables, links, live>> /\ CallFor'
  <2>1. internal' \in Entries /\ external' \in Entries /\ OneTable'
    BY <1>1 DEF WeakInv, OneTable, tables
  <2>2. QED
    BY <1>1, <2>1, WeakTables
<1>2. CallFor /\ (UNCHANGED <<live, call>> => CallFor') /\ (call' = NoCall => CallFor')
  BY DEF WeakInv, CallFor
<1>3. ASSUME NEW p \in Packages, NEW n \in Names, Intern(p, n) \/ Shadow(p, n) PROVE WeakInv'
  <2>1. CASE Intern(p, n)
    <3>1. PICK s \in Fresh(n) : Create(p, s)
      BY <2>1 DEF Intern
    <3>2. Slot(external, p, n) = {}
      BY <2>1 DEF Intern, Found
    <3>3. QED
      BY <2>1, <3>1, <3>2, WeakCreate DEF Intern
  <2>2. CASE Shadow(p, n) /\ Present(p, n) = {}
    <3>1. PICK s \in Fresh(n) : Create(p, s)
      BY <2>2 DEF Shadow, ShadowName
    <3>2. Slot(external, p, n) = {}
      BY <2>2 DEF Present
    <3>3. QED
      BY <2>2, <3>1, <3>2, WeakCreate DEF Shadow, ShadowName
  <2>3. CASE Shadow(p, n) /\ Present(p, n) # {}
    <3>1. UNCHANGED <<internal, external, links, live, call>>
      BY <2>3 DEF Shadow, ShadowName
    <3>2. internal' \in Entries /\ external' \in Entries /\ OneTable'
      BY <3>1 DEF WeakInv, OneTable
    <3>3. QED
      BY <1>2, <3>1, <3>2, WeakTables
  <2>4. QED
    BY <1>3, <2>1, <2>2, <2>3
<1>4. ASSUME NEW p \in Packages, NEW s \in Symbols, Import(p, s) PROVE WeakInv'
  <2>1. external[p][NameOf[s]] = NoSymbol
    BY <1>4 DEF Import, Found, Slot
  <2>2. UNCHANGED <<external, links, live, call>> /\ internal' = With(internal, p, s)
    BY <1>4 DEF Import
  <2>3. QED
    BY <1>2, <2>1, <2>2, WithStep, WeakTables
<1>5. ASSUME NEW p \in Packages, NEW s \in Symbols, ShadowingImport(p, s) \/ Unintern(p, s) PROVE WeakInv'
  <2>1. UNCHANGED <<live, call>>
    BY <1>5 DEF ShadowingImport, Unintern, ImportShadowing, TakeOut
  <2>2. QED
    BY <1>2, <1>5, <2>1, WeakShadowing, WeakTakeOut DEF ShadowingImport, Unintern
<1>6. ASSUME NEW p \in Packages, NEW s \in Symbols, Export(p, s) PROVE WeakInv'
  BY <1>6, WeakExport DEF Export
<1>7. ASSUME NEW p \in Packages, NEW s \in Symbols, Unexport(p, s) PROVE WeakInv'
  BY <1>2, <1>7, WithStep, WeakTables DEF Unexport
<1>8. ASSUME NEW p \in Packages, NEW q \in Packages, UsePackage(p, q) PROVE WeakInv'
  BY <1>8, WeakUse DEF UsePackage
<1>9. ASSUME NEW p \in Packages, NEW q \in Packages, UnusePackage(p, q) PROVE WeakInv'
  <2>1. UNCHANGED <<internal, external, live, call>>
    BY <1>9 DEF UnusePackage, tables
  <2>2. uses' \in Links' /\ usedBy' \in Links' /\ UsesMirror'
    BY <1>9, <2>1 DEF UnusePackage, WeakInv, Links, UsesMirror
  <2>3. QED
    BY <1>2, <2>1, <2>2 DEF WeakInv, OneTable
<1>10. ASSUME NEW p \in Packages, DeletePackage(p) PROVE WeakInv'
  <2>1. internal' \in Entries /\ external' \in Entries
    BY <1>10 DEF DeletePackage, WeakInv, Entries
  <2>2. \A q \in Packages, n \in Names : /\ internal'[q][n] \in {internal[q][n], NoSymbol}
                                        /\ external'[q][n] \in {external[q][n], NoSymbol}
    BY <1>10 DEF DeletePackage, WeakInv, Entries
  <2>3. OneTable'
    BY <2>2 DEF WeakInv, OneTable
  <2>4. uses' \in Links' /\ usedBy' \in Links' /\ UsesMirror'
    BY <1>10 DEF DeletePackage, WeakInv, Links, UsesMirror
  <2>5. QED
    BY <1>10, <2>1, <2>3, <2>4 DEF DeletePackage, WeakInv, CallFor, Calm
<1>11. ASSUME NEW p \in Packages, NEW n \in Names, KeepOld(p, n) \/ TakeNew(p, n) PROVE WeakInv'
  BY <1>11, WeakChoice
<1>12. ASSUME NEW p \in Packages, NEW n \in Names, Fail(p, n) PROVE WeakInv'
  BY <1>1, <1>2, <1>12 DEF Fail
<1>13. CASE Abort
  BY <1>1, <1>2, <1>13 DEF Abort
<1>14. CASE StartOver
  BY <1>14, WeakExport, WeakUse DEF StartOver, Calm, WeakInv, CallFor
<1>15. CASE UNCHANGED vars
  BY <1>1, <1>2, <1>15 DEF vars, tables, links
<1>16. QED
  BY <1>3, <1>4, <1>5, <1>6, <1>7, <1>8, <1>9, <1>10, <1>11, <1>12, <1>13, <1>14, <1>15
     DEF Next, Resolve

\* WeakInv holds in every reachable state.
LEMMA WeakInvariance == Spec => []WeakInv
<1>1. Init => WeakInv
  BY PackageAssumption DEF Init, WeakInv, Entries, Links, CallFor, UsesMirror, OneTable
<1>2. QED
  BY <1>1, NextWeakInv, PTL DEF Spec

\* _UsingPackages and _PackagesUsedBy agree, whatever programs call: no operation
\* writes only one of the two, and a deleted package is in no list.
THEOREM LinksAgree == Spec => []UsesMirror
<1>1. WeakInv => UsesMirror
  BY DEF WeakInv
<1>2. QED
  BY <1>1, WeakInvariance, PTL

\* A name is internal or external in a package, never both, whatever programs
\* call: findSymbol, which looks at the external symbols first, hides nothing.
THEOREM TablesDisjoint == Spec => []OneTable
<1>1. WeakInv => OneTable
  BY DEF WeakInv
<1>2. QED
  BY <1>1, WeakInvariance, PTL
=============================================================================
