----------------------------- MODULE TreeAnswers ------------------------------
(* The trees of pages that readers and authors are shown.                    *)
EXTENDS Answers, Trees

(* What LocalProject answers from a copy: directory_tree.                    *)
ContentTreeOf(fs, locale) ==
    LET tree == BuildTree(fs, schemaVersion, "content", locale)
    IN  ContentTree(fs, schemaVersion, locale, tree, GetPageRefs(Db, Modid, TreeFilePaths(tree)))
DocsTree(fs, locale) == BuildTree(fs, schemaVersion, "docs", locale)

(* What the preview makes of the author's files.                             *)
PreviewTree(fs, locale) ==
    LET pages == Range(ScanContentPages(fs, schemaVersion, Modid).pages)
        refs == [slug \in {p.slug : p \in pages} |-> (CHOOSE p \in pages : p.slug = slug).ref]
    IN  ContentTree(fs, schemaVersion, locale, BuildTree(fs, schemaVersion, "content", locale), refs)
-----------------------------------------------------------------------------
(* The tree of the preview is that of the site, with the same files, unless  *)
(* two pages have the same reference: the one takes the references of pages  *)
(* from its scan, the other asks for those of the files in the tree.         *)
PreviewTreeIsServed ==
    LET fs == Contents(checkout)
    IN  Previewed(fs) => \A locale \in SomeLocales : PreviewTree(fs, locale) = ContentTreeOf(fs, locale)

(* Whatever is listed opens: the files of both trees lead to a page that can *)
(* be read, by the same path that the database has.                          *)
ListedPagesOpen ==
    Settled => LET fs == CopyOf(ActiveDeployment) IN \A locale \in SomeLocales :
        /\ \A entry \in FileEntries(ContentTreeOf(fs, locale)) :
              ContentOpens(fs, locale, entry.ref) /\ GetProjectPagePath(Db, Modid, entry.ref) = entry.path
        /\ \A slug \in TreeFilePaths(DocsTree(fs, locale)) : Opens(fs, DocsPagePath(fs, locale, slug))

(* The trees are what the author has seen, and lead where they say.          *)
TreesAreServed == PreviewTreeIsServed /\ ListedPagesOpen
=============================================================================
