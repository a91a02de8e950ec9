-------------------------------- MODULE Trees ---------------------------------
(* The trees that wiki-content builds of the pages of a section: the entries *)
(* of its directories with the metadata of folders (tree.rs), and what the   *)
(* content section makes of them (content.rs).  The tree of a directory has  *)
(* those of the directories in it.                                           *)
EXTENDS Content

(* The metadata of a folder says something of its entries in their order; an *)
(* entry of no known form is skipped.  The issues that a tree collects are   *)
(* left out.                                                                 *)
FolderMetaPath(dir) == Path(dir, <<"", "meta">>, "json")
NoIcon == <<"", "none">>
ParseFolderMetadata(text) ==
    LET good == SelectSeq(text.entries, LAMBDA e : e.form # "other")
        Entry(e) == [key |-> e.key, name |-> e.name,
                     icon |-> CASE e.form = "null_icon" -> NoIcon
                                [] e.form = "object" -> e.icon
                                [] OTHER -> None]
    IN  [i \in DOMAIN good |-> Entry(good[i])]

(* docs_entry_name: what is left when nothing names an entry.                *)
EntryName(key) == [fallback |-> SelectSeq(key.name, LAMBDA w : w # "")]

EntryPath(dir, key) == Path(dir, key.name, key.ext)
ReadFrontmatter(fs, path) == IF path \in DOMAIN fs THEN ParseFrontmatter(fs[path]) ELSE None

(* The title of a page, if it has front matter.                              *)
FrontmatterTitle(fs, path, frontmatter) == IF frontmatter = None THEN None ELSE PageTitle(fs[path], frontmatter)

(* The entries that the metadata lists, with their names and icons.          *)
FolderMetadataAt(fs, schema, locale, dir, path) ==
    LET PageName(file) == FrontmatterTitle(fs, file, ReadFrontmatter(fs, file))
        NameOf(key) == OrElse(PageName(Localized(fs, schema, locale, EntryPath(dir, key))), EntryName(key))
        Entry(entry) == [entry EXCEPT !.name = OrElse(@, NameOf(entry.key))]
        Named(entries) == [i \in DOMAIN entries |-> Entry(entries[i])]
    IN  IF path \notin DOMAIN fs \/ ~fs[path].json THEN <<>> ELSE Named(ParseFolderMetadata(fs[path]))
FolderMetadata(fs, schema, locale, dir) ==
    FolderMetadataAt(fs, schema, locale, dir, Localized(fs, schema, locale, FolderMetaPath(dir)))

IsTreeEntry(key) == key.name[1] \notin Dotted \cup {""} /\ key.ext \in {"dir", "mdx"}
KeyBefore(a, b) == Before(a.name, b.name) \/ (a.name = b.name /\ a.ext = "dir" /\ b.ext # "dir")
(* Those the metadata lists first, in its order.                             *)
EntryBefore(keys, a, b) ==
    CASE a \in Range(keys) /\ b \in Range(keys) -> Min({i \in DOMAIN keys : keys[i] = a}) < Min({i \in DOMAIN keys : keys[i] = b})
      [] a \in Range(keys) \/ b \in Range(keys) -> a \in Range(keys)
      [] OTHER -> KeyBefore(a, b)

RECURSIVE BuildDir(_, _, _, _, _, _)
BuildDir(fs, schema, locale, dir, slug, listed) ==
    LET keys == [i \in DOMAIN listed |-> listed[i].key]
        Listed(key) == CHOOSE entry \in Range(listed) : entry.key = key
        Children(key) ==
            BuildDir(fs, schema, locale, Append(dir, key.name), Append(slug, key.name),
                     FolderMetadata(fs, schema, locale, Append(dir, key.name)))
        Node(key, file, frontmatter) ==
            [name |-> IF key \in Range(keys) THEN Listed(key).name
                      ELSE OrElse(FrontmatterTitle(fs, file, frontmatter), EntryName(key)),
             icon |-> IF key \in Range(keys) THEN Listed(key).icon ELSE None,
             contentIcon |-> IF frontmatter = None THEN None ELSE frontmatter.icon,
             path |-> Append(slug, key.name),
             type |-> IF key.ext = "dir" THEN "dir" ELSE "file",
             children |-> IF key.ext = "dir" THEN Children(key) ELSE <<>>]
        NodeAt(key, file) == Node(key, file, IF key.ext = "dir" THEN None ELSE ReadFrontmatter(fs, file))
        Nodes(entries) == [i \in DOMAIN entries |-> NodeAt(entries[i], Localized(fs, schema, locale, EntryPath(dir, entries[i])))]
    IN  Nodes(SetToSortSeq({k \in ReadDir(fs, dir) : IsTreeEntry(k)}, LAMBDA a, b : EntryBefore(keys, a, b)))

BuildTree(fs, schema, section, locale) ==
    LET root == SectionDir(schema, section)
    IN  BuildDir(fs, schema, locale, root, <<>>, FolderMetadata(fs, schema, locale, root))

(* The slugs of the files in a tree.  A mutated form: not those in folders.  *)
TopFilePaths(tree) == {tree[i].path : i \in {j \in DOMAIN tree : tree[j].type # "dir"}}
RECURSIVE TreeFilePaths(_)
TreeFilePaths(tree) ==
    UNION {IF tree[i].type = "dir" THEN TreeFilePaths(tree[i].children) ELSE {tree[i].path} : i \in DOMAIN tree}

PageIcon(schema, frontmatter) ==
    IF frontmatter.icon # None THEN frontmatter.icon
    ELSE IF frontmatter.ids = <<>> THEN None ELSE ItemAsset(schema, frontmatter.ids[1])

(* content_tree: the pages that have a reference and front matter, with both.*)
RECURSIVE ContentTree(_, _, _, _, _)
ContentTree(fs, schema, locale, tree, refs) ==
    LET FrontmatterOf(node) ==
            ReadFrontmatter(fs, Localized(fs, schema, locale, PagePath(schema, "content", node.path)))
        kept == SelectSeq(tree, LAMBDA node : node.type = "dir" \/ (node.path \in DOMAIN refs /\ FrontmatterOf(node) # None))
        Entry(node) ==
            IF node.type = "dir"
            THEN [ref |-> None, name |-> node.name, icon |-> None, path |-> node.path, type |-> "dir",
                  ids |-> <<>>, children |-> ContentTree(fs, schema, locale, node.children, refs)]
            ELSE [ref |-> refs[node.path], name |-> node.name, icon |-> PageIcon(schema, FrontmatterOf(node)),
                  path |-> node.path, type |-> "file", ids |-> FrontmatterOf(node).ids, children |-> <<>>]
    IN  [i \in DOMAIN kept |-> Entry(kept[i])]

RECURSIVE FileEntries(_)
FileEntries(tree) ==
    UNION {IF tree[i].type = "dir" THEN FileEntries(tree[i].children) ELSE {tree[i]} : i \in DOMAIN tree}
=============================================================================
