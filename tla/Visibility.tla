----------------------------- MODULE Visibility -----------------------------
(***************************************************************************)
(* Who may see an Article: domain/collections.py (resolve_chain),          *)
(* domain/audience.py (effective_audience) and what index/indexer.py makes *)
(* of them for one row.                                                    *)
(*                                                                         *)
(* A lookup gives every Collection its parent and its audience.  The code  *)
(* walks from a Collection to its parent until there is none; a Collection *)
(* it meets twice raises.  Here the walk is the least set that holds the   *)
(* Collection and, with any member, its parent; it resolves when it holds  *)
(* a root.                                                                 *)
(***************************************************************************)
CONSTANTS
    Collections,
    Top,            \* the parent of a root
    Audiences,      \* what an Article or a Collection may say itself
    Silent,         \* it says nothing and inherits
    Hidden,         \* not published, or in the Papierkorb
    Members,        \* the audience of a chain that says nothing
    ArchivistOnly,  \* what a hidden Article and a broken chain come to
    NoRow           \* the scope of no row at all

ASSUME TopAssumption == Top \notin Collections
ASSUME ScopesAssumption == Silent \notin Audiences /\ Hidden \notin Audiences \union {Silent}

Lookups ==
    [Collections -> [parent: Collections \union {Top}, audience: Audiences \union {Silent}]]

(* What visibility depends on in an Article. *)
Placements == [collection: Collections, audience: Audiences \union {Silent, Hidden}]

(* The Collections resolve_chain meets on the way up from c. *)
ResolveChain(c, lookup) ==
    {d \in Collections :
        \A S \in SUBSET Collections :
            c \in S /\ (\A e \in S : lookup[e].parent \in S \union {Top}) => d \in S}

(* BrokenCollectionTree: the way up runs in a circle. *)
Broken(c, lookup) == \A d \in ResolveChain(c, lookup) : lookup[d].parent # Top

(* The chain, ended by the first Collection that says an audience. *)
Cut(lookup) ==
    [d \in Collections |->
        [parent |-> IF lookup[d].audience = Silent THEN lookup[d].parent ELSE Top]]

Deciding(c, lookup) == {d \in ResolveChain(c, Cut(lookup)) : Cut(lookup)[d].parent = Top}

(* The nearest explicit Audience wins, even where it widens an ancestor's. *)
EffectiveAudience(article, lookup) ==
    LET decides == CHOOSE d \in Deciding(article.collection, lookup) : TRUE IN
    CASE article.audience = Hidden -> ArchivistOnly
      [] article.audience \in Audiences -> article.audience
      [] article.audience = Silent ->
             IF lookup[decides].audience = Silent THEN Members ELSE lookup[decides].audience

Scopes == Audiences \union {Members, ArchivistOnly, NoRow}

(* The columns of one row: fail closed where the chain does not resolve    *)
(* (ADR 0012).                                                             *)
RowColumns(article, lookup) ==
    IF Broken(article.collection, lookup)
    THEN [scope |-> ArchivistOnly, ancestors |-> {}]
    ELSE [scope |-> EffectiveAudience(article, lookup),
          ancestors |-> ResolveChain(article.collection, lookup)]

(* Whether a refresh of the Collection c recomputes the Article's row.     *)
InSubtree(article, c, lookup) ==
    IF Broken(article.collection, lookup)
    THEN article.collection = c
    ELSE c \in ResolveChain(article.collection, lookup)
=============================================================================
