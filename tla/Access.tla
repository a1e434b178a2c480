------------------------------- MODULE Access -------------------------------
(***************************************************************************)
(* Who may see an Article: domain/audience.py, domain/access.py, and the   *)
(* scope columns of its index row with the query over them                 *)
(* (index/scope.py), which must agree with can_view.                       *)
(***************************************************************************)
EXTENDS Integers, Sequences

CONSTANTS
    Groups,       \* names of Keycloak groups
    Collections   \* ulids of Collections

(* An Audience names groups on the GROUPS rung and nowhere else.           *)
Rung(tier, groups) == [tier |-> tier, groups |-> groups]
Public == Rung("PUBLIC", {})
Members == Rung("MEMBERS", {})
Audiences == {Public, Members} \union {Rung("GROUPS", g) : g \in SUBSET Groups \ {{}}}

Silent == Rung("SILENT", {})           \* inherits
ArchivistOnly == Rung("ARCHIVIST", {}) \* above every rung
Misresolved == Rung("NONE", {})        \* no Audience to authorize against

Viewers ==
    [role : {"archivist", "public"}, groups : {{}}] \union [role : {"member"}, groups : SUBSET Groups]

Archivist == [role |-> "archivist", groups |-> {}]
Visitor == [role |-> "public", groups |-> {}]
PlainMember == [role |-> "member", groups |-> {}]

(* What visibility depends on in an Article; only a Draft is a template.   *)
Placed == [collection : Collections, published : BOOLEAN, template : BOOLEAN,
           deleted : BOOLEAN, audience : Audiences \union {Silent}]

(* A resolved chain, leaf first; the empty one did not resolve.            *)
Chains == Seq([ulid : Collections, audience : Audiences \union {Silent}])

(***************************************************************************)
(* effective_audience                                                      *)
(***************************************************************************)
Fits(article, chain) == chain # <<>> /\ chain[1].ulid = article.collection

Speaking(chain) == {i \in DOMAIN chain : chain[i].audience # Silent}
Nearest(chain) == CHOOSE i \in Speaking(chain) : \A j \in Speaking(chain) : i <= j

EffectiveAudience(article, chain) ==
    CASE ~Fits(article, chain) -> Misresolved
      [] Fits(article, chain) /\ (~article.published \/ article.deleted) -> ArchivistOnly
      [] Fits(article, chain) /\ article.published /\ ~article.deleted ->
             IF article.audience # Silent THEN article.audience
             ELSE IF Speaking(chain) = {} THEN Members
             ELSE chain[Nearest(chain)].audience

(***************************************************************************)
(* can_view                                                                *)
(***************************************************************************)
ClearsRung(viewer, rung) ==
    \/ viewer.role = "archivist"
    \/ rung.tier = "PUBLIC"
    \/ viewer.role = "member" /\ rung.tier = "MEMBERS"
    \/ viewer.role = "member" /\ rung.tier = "GROUPS" /\ viewer.groups \intersect rung.groups # {}

CanView(viewer, article, chain) ==
    LET effective == EffectiveAudience(article, chain) IN
    CASE effective = Misresolved -> FALSE
      [] effective = ArchivistOnly -> viewer.role = "archivist"
      [] effective \notin {Misresolved, ArchivistOnly} -> ClearsRung(viewer, effective)

(***************************************************************************)
(* preview: who would see the Article if it were published now.            *)
(***************************************************************************)
AsPublished(article) == [article EXCEPT !.published = TRUE, !.template = FALSE]

Preview(article, chain) ==
    LET effective == EffectiveAudience(AsPublished(article), chain) IN
    [public |-> CanView(Visitor, AsPublished(article), chain),
     members |-> CanView(PlainMember, AsPublished(article), chain),
     groups |-> IF effective.tier = "GROUPS" THEN effective.groups ELSE {}]

(***************************************************************************)
(* The scope columns; a row whose chain does not resolve is kept for the   *)
(* archivists, who are to repair it.                                       *)
(***************************************************************************)
ScopeColumns(effective) ==
    [archivist_only |-> effective \in {ArchivistOnly, Misresolved},
     tier |-> IF effective \in {ArchivistOnly, Misresolved} THEN "" ELSE effective.tier,
     groups |-> effective.groups]

ViewerScope(viewer, row) ==
    CASE viewer.role = "archivist" -> TRUE
      [] viewer.role = "member" ->
             /\ ~row.archivist_only
             /\ \/ row.tier \in {"PUBLIC", "MEMBERS"}
                \/ row.tier = "GROUPS" /\ row.groups \intersect viewer.groups # {}
      [] viewer.role = "public" -> ~row.archivist_only /\ row.tier = "PUBLIC"
=============================================================================
