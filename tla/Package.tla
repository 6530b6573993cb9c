------------------------------ MODULE Package ------------------------------
(***************************************************************************)
(* core::Package_O: which symbol a name means in which package.            *)
(*                                                                         *)
(* Every operation is one step: the code holds the lock of the package it  *)
(* changes, but reads and changes the packages it uses, or that use it,    *)
(* without theirs, so two operations at once are out of the model.  A name *)
(* conflict of EXPORT or USE-PACKAGE is resolved with the lock given up:   *)
(* the call in progress then takes a step for each restart that is chosen, *)
(* and starts over.  The order of _UsingPackages is left out: it decides   *)
(* only where two used packages are in conflict.                           *)
(***************************************************************************)
CONSTANTS Packages, Names, Symbols,
          NameOf,               \* the name of each symbol
          Locked,               \* the packages locked by the system or the user
          MayUse,               \* a bound: the pairs of packages of which one may use the other
          UnexportsAny,         \* whether programs unexport any symbol with the name of an external one
          NoSymbol, NoPackage

ASSUME PackageAssumption == /\ NameOf \in [Symbols -> Names]
                            /\ Locked \subseteq Packages
                            /\ UnexportsAny \in BOOLEAN
                            /\ NoSymbol \notin Symbols
                            /\ NoPackage \notin Packages

VARIABLES internal, external,   \* _InternalSymbols and _ExternalSymbols, by name
          shadowing,            \* _Shadowing
          uses, usedBy,         \* _UsingPackages and _PackagesUsedBy
          home,                 \* the home package of each symbol
          made,                 \* the symbols there are
          live,                 \* the packages not deleted
          call                  \* the EXPORT or USE-PACKAGE whose conflicts are being resolved

tables == <<internal, external, shadowing>>
links == <<uses, usedBy>>
vars == <<internal, external, shadowing, uses, usedBy, home, made, live, call>>

AtMostOne(S) == \A s, t \in S : s = t

Slot(table, p, n) == {table[p][n]} \ {NoSymbol}
Present(p, n) == Slot(external, p, n) \cup Slot(internal, p, n)
Inherited(p, n) == UNION {Slot(external, q, n) : q \in uses[p]}

\* What findSymbol_SimpleString_no_lock may give: an external symbol before an
\* internal one, and both before an inherited one.
Found(p, n) == IF Slot(external, p, n) # {} THEN Slot(external, p, n)
               ELSE IF Slot(internal, p, n) # {} THEN Slot(internal, p, n)
               ELSE Inherited(p, n)

Fresh(n) == {s \in Symbols \ made : NameOf[s] = n}

NoCall == [op |-> "none", in |-> NoPackage, of |-> NoSymbol, left |-> {}]
Calm == call = NoCall

\* The table with s as the symbol of its name, or with no symbol of that name.
With(table, p, s) == [table EXCEPT ![p] = [@ EXCEPT ![NameOf[s]] = s]]
Without(table, p, n) == [table EXCEPT ![p] = [@ EXCEPT ![n] = NoSymbol]]
\* The table without s: another symbol of the name stays.
Dropped(table, p, s) == IF table[p][NameOf[s]] = s THEN Without(table, p, NameOf[s]) ELSE table
\* A symbol without a home package is given this one.
Homed(h, p, s) == [h EXCEPT ![s] = IF @ = NoPackage THEN p ELSE @]
\* A symbol taken out of its home package has none.
Unhomed(p, S) == [s \in Symbols |-> IF s \in S /\ home[s] = p THEN NoPackage ELSE home[s]]

Init == /\ internal = [p \in Packages |-> [n \in Names |-> NoSymbol]]
        /\ external = internal
        /\ shadowing = [p \in Packages |-> {}]
        /\ uses = [p \in Packages |-> {}] /\ usedBy = uses
        /\ home = [s \in Symbols |-> NoPackage]
        /\ made = {}
        /\ live = Packages
        /\ call = NoCall

-----------------------------------------------------------------------------
\* One symbol in one package.

\* A new symbol n of p; intern and shadow.
Create(p, s) == /\ internal' = With(internal, p, s)
                /\ home' = [home EXCEPT ![s] = p]
                /\ made' = made \cup {s}

Intern(p, n) == /\ Calm /\ p \in live
                /\ Found(p, n) = {}
                /\ \E s \in Fresh(n) : Create(p, s)
                /\ UNCHANGED <<external, shadowing, links, live, call>>

ShadowName(p, n) ==
  /\ \/ /\ Present(p, n) = {}
        /\ \E s \in Fresh(n) : /\ Create(p, s)
                               /\ shadowing' = [shadowing EXCEPT ![p] = @ \cup {s}]
     \/ /\ Present(p, n) # {}
        /\ shadowing' = [shadowing EXCEPT ![p] = @ \cup Found(p, n)]
        /\ UNCHANGED <<internal, home, made>>
  /\ UNCHANGED <<external, links, live>>

Shadow(p, n) == Calm /\ p \in live /\ ShadowName(p, n) /\ UNCHANGED call

\* import1.  Where the name means another symbol the user keeps that one, or
\* takes the new one, which is ShadowingImport; where the symbol is accessible
\* there is nothing to do.
Import(p, s) == /\ Calm /\ p \in live /\ s \in made
                /\ Found(p, NameOf[s]) = {}
                /\ internal' = With(internal, p, s)
                /\ home' = Homed(home, p, s)
                /\ UNCHANGED <<external, shadowing, links, made, live, call>>

\* Faulty: the external symbol of the name stays.
ImportShadowingBeside(p, s) ==
  LET old == Present(p, NameOf[s])
  IN /\ internal' = With(internal, p, s)
     /\ shadowing' = [shadowing EXCEPT ![p] = (@ \ old) \cup {s}]
     /\ home' = Homed(Unhomed(p, old), p, s)
     /\ UNCHANGED <<external, links, made, live>>

ImportShadowing(p, s) ==
  LET n == NameOf[s]
      old == Present(p, n)
  IN /\ external' = Without(external, p, n)
     /\ internal' = With(internal, p, s)
     /\ shadowing' = [shadowing EXCEPT ![p] = (@ \ old) \cup {s}]
     /\ home' = Homed(Unhomed(p, old), p, s)
     /\ UNCHANGED <<links, made, live>>

ShadowingImport(p, s) == /\ Calm /\ p \in live /\ s \in made
                         /\ ImportShadowing(p, s)
                         /\ UNCHANGED call

\* Faulty: the home package stays.
TakeOutHomed(p, s) == /\ p \notin Locked
                      /\ s \in Present(p, NameOf[s]) \cup shadowing[p]
                      /\ s \in shadowing[p] => AtMostOne(Inherited(p, NameOf[s]))
                      /\ external' = Dropped(external, p, s)
                      /\ internal' = Dropped(internal, p, s)
                      /\ shadowing' = [shadowing EXCEPT ![p] = @ \ {s}]
                      /\ UNCHANGED <<links, home, made, live>>

\* unintern, where no two used packages come into conflict by it; where they do
\* the user chooses one of their symbols for ShadowingImport instead.  A symbol
\* that is not present only leaves the shadowing symbols.
TakeOut(p, s) == /\ p \notin Locked
                 /\ s \in Present(p, NameOf[s]) \cup shadowing[p]
                 /\ s \in shadowing[p] => AtMostOne(Inherited(p, NameOf[s]))
                 /\ external' = Dropped(external, p, s)
                 /\ internal' = Dropped(internal, p, s)
                 /\ shadowing' = [shadowing EXCEPT ![p] = @ \ {s}]
                 /\ home' = Unhomed(p, {s} \cap Present(p, NameOf[s]))
                 /\ UNCHANGED <<links, made, live>>

Unintern(p, s) == Calm /\ p \in live /\ TakeOut(p, s) /\ UNCHANGED call

\* unexport, of a name that has an external symbol here.  Which symbol that is
\* does not matter to the code: s takes its place, as the internal one.
Unexport(p, s) == /\ Calm /\ p \in live \ Locked /\ s \in made
                  /\ Slot(external, p, NameOf[s]) # {}
                  /\ ~UnexportsAny => Slot(external, p, NameOf[s]) = {s}
                  /\ external' = Without(external, p, NameOf[s])
                  /\ internal' = With(internal, p, s)
                  /\ UNCHANGED <<shadowing, links, home, made, live, call>>

-----------------------------------------------------------------------------
\* EXPORT and USE-PACKAGE, which look at other packages.

\* Faulty: only a symbol present in p clashes.
PresentClash(p, n, s) == /\ Present(p, n) \notin {{}, {s}}
                         /\ ~(Present(p, n) \subseteq shadowing[p])

\* Bringing s into p, where its name n means something, is a conflict.
Clash(p, n, s) == /\ Found(p, n) \notin {{}, {s}}
                  /\ ~(Found(p, n) \subseteq shadowing[p])

\* The places where a name would become ambiguous.
ExportConflicts(p, s) == {c \in usedBy[p] \X {NameOf[s]} : Clash(c[1], c[2], s)}
UseConflicts(p, q) == {c \in {p} \X Names :
                         \E s \in Slot(external, q, c[2]) : Clash(p, c[2], s)}

\* _export2 of a symbol that is accessible.  One that is not is imported first,
\* when the user says so: that is Import.
ExportNow(p, s) ==
  /\ Found(p, NameOf[s]) = {s} /\ Slot(external, p, NameOf[s]) = {}
  /\ \/ /\ ExportConflicts(p, s) = {}
        /\ external' = With(external, p, s)
        /\ internal' = Without(internal, p, NameOf[s])
        /\ home' = Homed(home, p, s)
        /\ call' = NoCall
        /\ UNCHANGED <<shadowing, links, made, live>>
     \/ /\ ExportConflicts(p, s) # {}
        /\ call' = [op |-> "export", in |-> p, of |-> s, left |-> ExportConflicts(p, s)]
        /\ UNCHANGED <<tables, links, home, made, live>>

\* usePackage.
UseNow(p, q) ==
  /\ q \notin uses[p]
  /\ \/ /\ UseConflicts(p, q) = {}
        /\ uses' = [uses EXCEPT ![p] = @ \cup {q}]
        /\ usedBy' = [usedBy EXCEPT ![q] = @ \cup {p}]
        /\ call' = NoCall
     \/ /\ UseConflicts(p, q) # {}
        /\ call' = [op |-> "use", in |-> p, of |-> q, left |-> UseConflicts(p, q)]
        /\ UNCHANGED links
  /\ UNCHANGED <<tables, home, made, live>>

Export(p, s) == Calm /\ p \in live /\ ExportNow(p, s)
UsePackage(p, q) == /\ Calm /\ p \in live /\ q \in live
                    /\ <<p, q>> \in MayUse
                    /\ UseNow(p, q)

\* Faulty: the package that was used still lists this one.
UnusePackageHalf(p, q) == /\ Calm /\ p \in live
                          /\ q \in uses[p]
                          /\ uses' = [uses EXCEPT ![p] = @ \ {q}]
                          /\ UNCHANGED <<tables, usedBy, home, made, live, call>>

UnusePackage(p, q) == /\ Calm /\ p \in live
                      /\ q \in uses[p]
                      /\ uses' = [uses EXCEPT ![p] = @ \ {q}]
                      /\ usedBy' = [usedBy EXCEPT ![q] = @ \ {p}]
                      /\ UNCHANGED <<tables, home, made, live, call>>

\* Faulty: the packages it used still list it.
DeletePackageHalf(p) ==
  /\ Calm /\ p \in live \ Locked
  /\ live' = live \ {p}
  /\ uses' = [q \in Packages |-> IF q = p THEN {} ELSE uses[q] \ {p}]
  /\ usedBy' = [usedBy EXCEPT ![p] = {}]
  /\ internal' = [internal EXCEPT ![p] = [n \in Names |-> NoSymbol]]
  /\ external' = [external EXCEPT ![p] = [n \in Names |-> NoSymbol]]
  /\ shadowing' = [shadowing EXCEPT ![p] = {}]
  /\ home' = Unhomed(p, UNION {Present(p, n) : n \in Names})
  /\ UNCHANGED <<made, call>>

\* cl__delete_package, its dependencies removed when the user says so.
DeletePackage(p) ==
  /\ Calm /\ p \in live \ Locked
  /\ live' = live \ {p}
  /\ uses' = [q \in Packages |-> IF q = p THEN {} ELSE uses[q] \ {p}]
  /\ usedBy' = [q \in Packages |-> IF q = p THEN {} ELSE usedBy[q] \ {p}]
  /\ internal' = [internal EXCEPT ![p] = [n \in Names |-> NoSymbol]]
  /\ external' = [external EXCEPT ![p] = [n \in Names |-> NoSymbol]]
  /\ shadowing' = [shadowing EXCEPT ![p] = {}]
  /\ home' = Unhomed(p, UNION {Present(p, n) : n \in Names})
  /\ UNCHANGED <<made, call>>

-----------------------------------------------------------------------------
\* Conflict resolution (export-name-conflict and use-package-name-conflict call
\* accessibility-conflict for each conflict in turn).

\* The symbols that would be brought in for the name n.
New(n) == IF call.op = "export" THEN {call.of} ELSE Found(call.of, n)

Conflicting(p, n) == Found(p, n) # {} /\ Found(p, n) # New(n)

Settled(p, n) == call' = [call EXCEPT !.left = @ \ {<<p, n>>}]

\* Faulty: the old symbol is imported, but does not shadow the new one.
KeepOldImported(p, n) == /\ <<p, n>> \in call.left /\ Conflicting(p, n)
                         /\ IF Present(p, n) = {}
                            THEN \E old \in Found(p, n) :
                                   /\ internal' = With(internal, p, old)
                                   /\ home' = Homed(home, p, old)
                                   /\ UNCHANGED <<external, shadowing, links, made, live>>
                            ELSE ShadowName(p, n)
                         /\ Settled(p, n)

KeepOld(p, n) == /\ <<p, n>> \in call.left /\ Conflicting(p, n)
                 /\ IF Present(p, n) = {}
                    THEN \E old \in Found(p, n) : ImportShadowing(p, old)
                    ELSE ShadowName(p, n)
                 /\ Settled(p, n)

TakeNew(p, n) == /\ <<p, n>> \in call.left /\ Conflicting(p, n)
                 /\ IF Present(p, n) = {}
                    THEN \E new \in New(n) : ImportShadowing(p, new)
                    ELSE \E old \in Found(p, n) : TakeOut(p, old)
                 /\ Settled(p, n)

\* The assertion of accessibility-conflict fails, the error leaves the call: the
\* restart chosen for an earlier package took away what this one inherited.
Fail(p, n) == /\ <<p, n>> \in call.left /\ ~Conflicting(p, n)
              /\ call' = NoCall
              /\ UNCHANGED <<tables, links, home, made, live>>

\* A handler may leave the call at any conflict.
Abort == /\ call.left # {}
         /\ call' = NoCall
         /\ UNCHANGED <<tables, links, home, made, live>>

\* The call starts over.
StartOver == /\ ~Calm /\ call.left = {}
             /\ \/ call.op = "export" /\ ExportNow(call.in, call.of)
                \/ call.op = "use" /\ UseNow(call.in, call.of)

Resolve == \/ \E p \in Packages, n \in Names : KeepOld(p, n) \/ TakeNew(p, n) \/ Fail(p, n)
           \/ StartOver

Next == \/ \E p \in Packages :
             \/ \E n \in Names : Intern(p, n) \/ Shadow(p, n)
             \/ \E s \in Symbols : \/ Import(p, s) \/ ShadowingImport(p, s) \/ Unintern(p, s)
                                   \/ Export(p, s) \/ Unexport(p, s)
             \/ \E q \in Packages : UsePackage(p, q) \/ UnusePackage(p, q)
             \/ DeletePackage(p)
        \/ Resolve
        \/ Abort

Spec == Init /\ [][Next]_vars

\* A user asked to resolve a conflict chooses.
FairSpec == Spec /\ WF_vars(Resolve)

-----------------------------------------------------------------------------
Tables == [Packages -> [Names -> made \cup {NoSymbol}]]
Links == [Packages -> SUBSET live]

TypeOK == /\ made \subseteq Symbols /\ live \subseteq Packages
          /\ internal \in Tables /\ external \in Tables
          /\ \A p \in Packages, n \in Names : \A s \in Present(p, n) : NameOf[s] = n
          /\ shadowing \in [Packages -> SUBSET made]
          /\ uses \in Links /\ usedBy \in Links
          /\ home \in [Symbols -> live \cup {NoPackage}]
          /\ call.left \subseteq live \X Names

\* Two packages agree on whether one uses the other, though each keeps a list
\* of its own and one call writes both.
UsesMirror == \A p, q \in Packages : q \in uses[p] <=> p \in usedBy[q]

\* The consistency of names: a symbol is external or internal, and a name means
\* one symbol in a package, inherited from however many it uses; where another
\* one could be inherited the present one is a shadowing symbol.  For programs
\* that unexport only what is external.
Unambiguous ==
  \A p \in Packages, n \in Names :
    /\ Slot(external, p, n) = {} \/ Slot(internal, p, n) = {}
    /\ Present(p, n) = {} => AtMostOne(Inherited(p, n))
    /\ Present(p, n) # {} => \/ Inherited(p, n) \subseteq Present(p, n)
                            \/ Present(p, n) \subseteq shadowing[p]

\* A shadowing symbol is present, and a symbol is present in its home package:
\* every operation that takes one out of the tables, for programs that unexport
\* only what is external, also takes it off the list and leaves it without a home.
SymbolsPresent == /\ \A p \in Packages : \A s \in shadowing[p] : s \in Present(p, NameOf[s])
                  /\ \A s \in Symbols : home[s] # NoPackage => s \in Present(home[s], NameOf[s])

\* "inherited symbols can't be on the shadow list, so this is safe"
\* (unintern_unsafe), of any program: they can once unexport was given another
\* symbol than the external one, which stays on the list.
InheritedNotShadowing ==
  \A p \in Packages : \A s \in shadowing[p] : s \in Found(p, NameOf[s]) => s \in Present(p, NameOf[s])

\* A name that means something in a package keeps its meaning there when
\* another symbol is interned, imported or exported, or a package used, anywhere.
\* For programs that unexport only what is external.
MeaningKept ==
  [][(\E p \in Packages : \/ \E n \in Names : Intern(p, n)
                          \/ \E s \in Symbols : Import(p, s) \/ ExportNow(p, s)
                          \/ \E q \in Packages : UseNow(p, q))
     => \A p \in Packages, n \in Names : Found(p, n) # {} => Found(p, n)' = Found(p, n)]_vars

\* EXPORT and USE-PACKAGE do not go round for ever.
CallEnds == ~Calm ~> Calm
=============================================================================
