--------------------------- MODULE MCArticlePages ---------------------------
(* Model values for the run of ArticlePages: one Medienart admits the      *)
(* Dokumenttyp, the other does not; the archive begins with few kinds of   *)
(* records, whole in the fields the pages decide on.                       *)
EXTENDS ArticlePages, TLC

CONSTANTS t1, t2, u1, u2, c1, c2, m1, m2, d1, f1, f2

TwoArchivists == {t1, t2}
OneUlid == {u1}
TwoUlids == {u1, u2}
TwoCollections == {c1, c2}
TwoMediaTypes == {m1, m2}
OneDocumentType == {d1}
OneAdmits == {<<m1, d1>>}
OneFile == {f1}
TwoFiles == {f1, f2}
FewChanges == {[kind |-> "down", file |-> f1], 
               [kind |-> "remove", file |-> f1], [kind |-> "upload", file |-> f2]}

Record(m, d, template, media) ==
    [Born(c1, None) EXCEPT !.mediaType = m, !.documentType = d, !.template = template,
                         !.media = media]
Unchanged == [f \in {} |-> None]
FewEntries == {Unchanged, [mediaType |-> m2], [mediaType |-> m1, documentType |-> d1],
               [lifecycle |-> "published"], [template |-> TRUE],
               [collection |-> c2, lifecycle |-> "published"]}
FewEdits == {[field |-> "mediaType", value |-> m2], [field |-> "documentType", value |-> d1],
             [field |-> "collection", value |-> c2], [field |-> "text", value |-> None]}
TheOther == {c2}
Interchangeable == Permutations(Archivists)
Drafts == {Record(m1, None, TRUE, <<>>), Record(m2, None, FALSE, <<>>),
           [Record(m1, d1, FALSE, <<f1, f2>>) EXCEPT !.collection = c2]}
=============================================================================
