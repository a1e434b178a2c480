------------------------------- MODULE Around -------------------------------
(***************************************************************************)
(* Six parts around the records that share no state and run side by side:  *)
(* the list and its search (Workbench), the login of a browser (Session),  *)
(* the WebDAV adapter (DavStore), the page texts (Derived), the fixity     *)
(* check (Fixity) and the import of the old site (LegacyImport).  As no    *)
(* step of one touches another, a behaviour is that of one part while the  *)
(* others rest.                                                            *)
(***************************************************************************)
EXTENDS Workbench

CONSTANTS
    \* Session
    Requests, Logins, SigningKeys, MaxSends, MaxMints, MaxLoginTroubles, Nil,
    \* DavStore
    Clients, FolderKeys, Values, Absent, Depth, Retries,
    \* Derived
    TextArticles, Hashes, Deadly, AtFirst, Edits, MaxSaves, MaxMishaps, None,
    \* Fixity
    CheckedArticles, CheckedCollections, Names, MaxWrites, MaxDamages, Garbage, NoRead, Nobody,
    \* LegacyImport
    Items, ImportFiles, MediaRoots, Unsorted, MaxSamples, MaxSetbacks

ASSUME NilAssumption == Nil \notin Logins
ASSUME GarbageAssumption ==
    /\ Garbage # NoRead
    /\ {Garbage, NoRead} \intersect (Names \union [version : Nat, names : SUBSET Names]) = {}
ASSUME DepthAssumption == Depth \in Nat \ {0}
ASSUME LegacyAssumption ==
    /\ MaxSamples \in Nat
    /\ Items \in Seq({Items[i] : i \in DOMAIN Items})
    /\ IsFiniteSet(ImportFiles)
    /\ \A f \in ImportFiles : f.slot \in Nat
    /\ \A f, g \in ImportFiles : f.item = g.item /\ f.slot = g.slot => f = g

VARIABLES
    part,
    realm, cache, expired, minted, jar, request, sends, troubles,
    files, folders, step, call, putFirst, tries,
    media, altered, named, text, save, queued, proc, saves, mishaps,
    tree, writer, check, writes, damages,
    sections, records, run, setbacks

loginVars == <<realm, cache, expired, minted, jar, request, sends, troubles>>
davVars == <<files, folders, step, call, putFirst, tries>>
textVars == <<media, altered, named, text, save, queued, proc, saves, mishaps>>
checkVars == <<tree, writer, check, writes, damages>>
importVars == <<sections, records, run, setbacks>>

Login == INSTANCE Session WITH Keys <- SigningKeys, MaxTroubles <- MaxLoginTroubles
Dav == INSTANCE DavStore WITH Keys <- FolderKeys, Nothing <- Absent
PageText == INSTANCE Derived WITH Articles <- TextArticles, MaxTroubles <- MaxMishaps
Checks == INSTANCE Fixity WITH Articles <- CheckedArticles, Collections <- CheckedCollections
Import == INSTANCE LegacyImport WITH
    Files <- ImportFiles, MaxTroubles <- MaxSetbacks,
    collections <- sections, articles <- records, troubles <- setbacks

AroundInit ==
    /\ part \in {"list", "login", "dav", "texts", "checks", "import"}
    /\ IF part = "list" THEN Init
       ELSE /\ archive = {} /\ rows = {} /\ viewer = Visitor /\ params = NoParams
            /\ promise = Anything /\ clicks = 0
    /\ Login!SessionInit
    /\ Dav!DavInit /\ (part # "dav" => folders = 0)
    /\ PageText!DerivedInit
    /\ Checks!FixityInit
    /\ Import!ImportInit

OfTexts(A) == part = "texts" /\ A /\ UNCHANGED <<part, vars, loginVars, davVars, checkVars, importVars>>

AroundNext ==
    \/ /\ part = "list" /\ Next
       /\ UNCHANGED <<part, loginVars, davVars, textVars, checkVars, importVars>>
    \/ /\ part = "login" /\ Login!SessionNext
       /\ UNCHANGED <<part, vars, davVars, textVars, checkVars, importVars>>
    \/ /\ part = "dav" /\ Dav!DavNext
       /\ UNCHANGED <<part, vars, loginVars, textVars, checkVars, importVars>>
    \/ OfTexts(PageText!DerivedNext)
    \/ /\ part = "checks" /\ Checks!FixityNext
       /\ UNCHANGED <<part, vars, loginVars, davVars, textVars, importVars>>
    \/ /\ part = "import" /\ Import!ImportNext
       /\ UNCHANGED <<part, vars, loginVars, davVars, textVars, checkVars>>

aroundVars == <<part, vars, loginVars, davVars, textVars, checkVars, importVars>>

(* DerivedFairness, while the behaviour is one of the page texts.          *)
TextsGoOn ==
    /\ WF_aroundVars(OfTexts(PageText!Refresh \/ PageText!EnqueueDerived))
    /\ \A p \in {"worker", "command"} : WF_aroundVars(OfTexts(PageText!Step(p)))
    /\ \A article \in TextArticles : SF_aroundVars(OfTexts(PageText!ExtractMediaText(article)))
    /\ SF_aroundVars(OfTexts(PageText!Reconcile))

AroundSpec == AroundInit /\ [][AroundNext]_aroundVars /\ TextsGoOn

(* What the parts promise, each as its module states it.                   *)
GrantedIsServed == Login!GrantedIsServed
LogoutEnds == Login!LogoutEnds
DavImplementsPort == Dav!DavImplementsPort
TextOfItsFile == PageText!TextOfItsFile
TextCatchesUp == part = "texts" => PageText!TextCatchesUp
FindingsExact == Checks!FindingsExact
ImportedOnce == Import!ImportedOnce
NothingVanishes == Import!NothingVanishes
=============================================================================
