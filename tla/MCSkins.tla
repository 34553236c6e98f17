------------------------------ MODULE MCSkins ------------------------------
(***************************************************************************)
(* The archives a skin may come in, sound or damaged in one place, the     *)
(* themes and images skins are made of, and what is asked of their         *)
(* readers and of the themes that are accepted.                            *)
(***************************************************************************)
EXTENDS SkinArchive, SkinTheme, TLC

MCCaseFolded == [p \in {"Theme.json", "ONE.png"} |->
                     IF p = "Theme.json" THEN "theme.json" ELSE "one.png"]
MCTextureFiles == {"one.png", "ONE.png", "two.png"}
MCInvalidNames == {<<>>, <<"garbage">>, <<"bad">>}

Entry(name, content, compression, flags) ==
    [name |-> name, content |-> content, compression |-> compression, flags |-> flags,
     attributes |-> [type |-> "none", directory |-> FALSE], extra |-> 0]

EntryNames == {ThemeFile, PreviewFile, <<"textures", "one.png">>, <<"textures", "ONE.png">>,
               <<"Theme.json">>, <<"..", "theme.json">>, <<"bad">>, <<"textures", "one.png", "">>}

Contents == {<<>>, <<<<"a">>>>, <<<<"a">>, <<"b">>>>, <<<<"a">>, <<"a">>, <<"a">>>>}

Entries == {Entry(n, c, z, f) : n \in EntryNames, c \in Contents,
                                z \in {"stored", "deflated"}, f \in {{}, {"descriptor"}}}
           \cup {Entry(TexturesDirectory, <<>>, "stored", {})}

Plain == {e \in Entries : e.compression = "stored" /\ e.flags = {}}

Three == <<Entry(ThemeFile, <<<<"a">>>>, "stored", {}),
           Entry(PreviewFile, <<<<"a">>, <<"b">>>>, "deflated", {}),
           Entry(<<"textures", "one.png">>, <<<<"b">>>>, "stored", {"descriptor"})>>

\* One value of a header, or one byte of content, is not what was written.
FieldNames == {"flags", "compression", "crc", "packed", "size", "name", "extra", "comment", "disk",
           "centralDisk", "onDisk", "count", "at", "is", "holds", "sig"}

Other(field, value) ==
    CASE field = "flags" -> {"descriptor"}
      [] field = "compression" -> IF value = 0 THEN "stored" ELSE "deflated"
      [] field = "crc" -> Crc(IF value = 0 THEN <<>> ELSE <<<<"b">>>>)
      [] field = "is" -> (IF value = 0 THEN ThemeFile ELSE IF value = 1 THEN PreviewFile ELSE <<"b">>)
      [] field = "holds" -> (IF value = 0 THEN <<>> ELSE <<<<"b">>>>)
      [] field = "sig" -> (IF value = 0 THEN "byte" ELSE "lost")
      [] OTHER -> value

Damages(archive) ==
    {d \in [at : DOMAIN archive, field : FieldNames, value : {0, 1, 2, 3, 9}] :
        /\ d.field \in DOMAIN archive[d.at]
        /\ d.field = "sig" => d.value # 0}

Damaged(archive, d) == [archive EXCEPT ![d.at][d.field] = Other(d.field, d.value)]

ArchiveCases ==
    {[about |-> "archive", entries |-> l, damage |-> {}] :
        l \in {<<e>> : e \in Entries} \cup {<<e, f>> : e \in Plain, f \in Entries}
              \cup {Append(Three, e) : e \in Plain} \cup {Three}}
    \cup {[about |-> "archive", entries |-> Three, damage |-> {d}] :
              d \in Damages(Archive(Three, <<>>))}

-----------------------------------------------------------------------------

IsSkinFile(name) == name \in {ThemeFile, PreviewFile} \cup {<<"textures", t>> : t \in TextureFiles}

Limit(name) == IF name = ThemeFile THEN kMaxThemeBytes ELSE kMaxImageBytes

\* What a skin is: a theme and at most its images, each within its limit, no two
\* of names a file system may confuse.
IsSkin(entries) ==
    /\ Len(entries) <= kMaxEntries
    /\ \E i \in DOMAIN entries : entries[i].name = ThemeFile
    /\ \A i \in DOMAIN entries :
          /\ IsSkinFile(entries[i].name) \/ entries[i].name = TexturesDirectory
          /\ Len(entries[i].content) <= Limit(entries[i].name)
    /\ \A i, j \in DOMAIN entries : i # j => Folded(entries[i].name) # Folded(entries[j].name)
    /\ FoldLeft(LAMBDA n, e : n + Len(e.content), 0, entries) <= kMaxExpandedBytes

FilesOf(entries) ==
    [n \in {e.name : e \in ToSet(entries)} \ {TexturesDirectory} |->
        (CHOOSE e \in ToSet(entries) : e.name = n).content]

\* readSkinArchive: an archive that was written is read as the files that were put
\* into it, if they are a skin, however they are packed, and else is refused
\* whole; and where any one value of it is not what was written, what is read is
\* still those files or nothing.
ArchiveMeansItsFiles(entries, damage) ==
    LET archive == Archive(entries, <<>>)
        expected == IF IsSkin(entries) THEN {FilesOf(entries)} ELSE {}
    IN  IF damage = {} THEN readSkinArchive(archive) = expected
        ELSE \A d \in damage : readSkinArchive(Damaged(archive, d)) \subseteq expected

-----------------------------------------------------------------------------
(***************************************************************************)
(* Themes and images.                                                      *)
(***************************************************************************)

MCDefaultPalette ==
    [r \in {"bg_base", "bg_dark", "bg_input"} |-> Grey(1)]
    @@ [r \in {"bg_panel", "btn_pressed", "success_bg", "warning_bg", "info_bg"} |-> Grey(3)]
    @@ [r \in {"bg_button"} |-> Grey(5)] @@ [r \in {"btn_hover"} |-> Grey(8)]
    @@ [r \in {"select_bg"} |-> Grey(16)] @@ [r \in {"text_primary"} |-> Grey(94)]
    @@ [r \in {"text_mid", "text_muted", "success", "warning", "info"} |-> Grey(50)]
    @@ [r \in {"text_dim", "danger", "error"} |-> Grey(34)]
    @@ [r \in {"border_default", "border_panel", "accent_checkbox"} |-> Grey(20)]
    @@ [r \in {"border_light", "accent_checkbox_border"} |-> Grey(30)]
    @@ [r \in {"accent_link", "focus_ring"} |-> Grey(40)]
    @@ [r \in {"border_subtle"} |-> Grey(4)]
    @@ [r \in {"focus_ring_offset"} |-> [Grey(100) EXCEPT !.opaque = FALSE]]

Hue(luminance, tone) == [Grey(luminance) EXCEPT !.tone = tone]

MCBrightTraces == <<Hue(30, 10), Hue(50, 40)>>
MCDarkTraces == <<Hue(10, 10), Hue(12, 40)>>

\* A light palette, where text is dark.
LightColors ==
    [r \in DOMAIN MCDefaultPalette |->
        IF r \in Backgrounds THEN Grey(IF r = "select_bg" THEN 25 ELSE 90)
        ELSE IF r = "text_primary" THEN Grey(1)
        ELSE Grey(IF r = "border_subtle" THEN 80 ELSE 10)]

Colors == {Grey(l) : l \in {0, 3, 6, 25, 60, 100}} \cup {Grey(-1), [Grey(3) EXCEPT !.opaque = FALSE]}

Traces == {{}, {<<Hue(40, 0), Hue(50, 0)>>}, {<<Hue(40, 0), Hue(45, 3)>>}, {<<Hue(40, 9)>>},
           {<<Hue(2, 0), Hue(50, 0)>>}}

Palettes ==
    {{}} \cup {{[colors |-> LightColors, traces |-> t]} : t \in Traces}
    \cup {{[colors |-> [LightColors EXCEPT ![b] = Grey(75), ![t] = Grey(13)], traces |-> {}]} :
              b \in Backgrounds, t \in DOMAIN MCDefaultPalette \ Backgrounds}
    \cup {{[colors |-> [r \in {s} |-> c], traces |-> t]} :
              s \in DOMAIN MCDefaultPalette, c \in Colors, t \in {{}, {<<Hue(40, 0), Hue(50, 0)>>}}}
    \cup {{[colors |-> [r \in {s, "text_dim", "accent_link", "bg_panel"} |->
                            IF r = s THEN c ELSE IF r = "bg_panel" THEN Grey(p) ELSE Grey(80)],
            traces |-> {}]} :
              s \in DOMAIN MCDefaultPalette \ {"text_dim", "accent_link", "bg_panel"},
              c \in Colors, p \in {1, 6}}

Json(palette) ==
    [bytes |-> 1, parses |-> TRUE, name |-> 4, author |-> -1, version |-> -1, palette |-> palette,
     textures |-> <<>>, opacity |-> -1, mode |-> "absent"]

Image(width, pixels) ==
    [regular |-> TRUE, png |-> TRUE, decodes |-> TRUE, bytes |-> 1, width |-> width,
     height |-> 1, pixels |-> pixels]

One == <<"textures", "one.png">>
Two == <<"textures", "two.png">>

Pixels == {<<>>} \cup {<<[luminance |-> l, alpha |-> a]>> : l \in {0, 100}, a \in {0, 50, 100}}

NoImages == [path \in {} |-> Image(1, <<>>)]
SkinImages ==
    {[path \in paths |-> Image(IF path = One THEN w ELSE 2, IF path = One THEN p ELSE <<>>)] :
        paths \in SUBSET {Preview, One, Two}, w \in {1, 2, 4}, p \in Pixels}

Textures == {<<>>, [r \in {"panel"} |-> One], [r \in {"sidebar"} |-> One],
             [r \in {"panel", "sidebar"} |-> IF r = "panel" THEN One ELSE Two],
             [r \in {"panel", "toolbar"} |-> One], [r \in {"menu"} |-> One]}

ThemeCases ==
    {[about |-> "theme", json |-> Json(p), files |-> NoImages] : p \in Palettes}
    \cup {[about |-> "theme", json |-> [Json(p) EXCEPT !.textures = t, !.opacity = o], files |-> f] :
              p \in {{}, {[colors |-> LightColors, traces |-> {}]}},
              t \in Textures, o \in {-1, 0, 20, 100, 101}, f \in SkinImages}
    \cup {[about |-> "theme", json |-> j, files |-> NoImages] :
              j \in {[Json({}) EXCEPT !.bytes = n, !.name = l, !.mode = m] :
                        n \in {0, 1, kMaxThemeBytes + 1}, l \in {-1, 0, 80, 81},
                        m \in {"absent", "Cover", "zoom"}}}

-----------------------------------------------------------------------------

\* validatePaletteContrast against applicationPalette and generateQss: with any
\* theme that is accepted, every text the application draws is legible on what it
\* is drawn on, the text over the panel texture too, and every trace stands out
\* from the chart and from the others.
AcceptedThemeIsLegible(json, files) ==
    \A theme \in loadFromDirectory(json, files) \cup AcceptedByImport(json, files) :
        /\ \A p \in PaletteText \cup StyledText \cup StyledLists :
               hasMinimumContrast(theme.palette[p[1]], theme.palette[p[2]], Legible)
        /\ \A i \in DOMAIN theme.traces : \A b \in {"bg_base", "bg_panel"} :
               hasMinimumContrast(theme.traces[i], theme.palette[b], Visible)
        /\ theme.opacity \in 0 .. kMaxTextureOpacity
        /\ \A r \in DOMAIN theme.textures : r = "panel" =>
               \A i \in DOMAIN files[theme.textures[r]].pixels :
                   LET pixel == files[theme.textures[r]].pixels[i]
                       shown == (pixel.luminance - theme.palette["bg_panel"].luminance)
                                * theme.opacity * pixel.alpha
                       under == theme.palette["bg_panel"].luminance + shown \div 10000
                   IN  hasMinimumContrast(theme.palette["text_primary"],
                                          Grey(IF under < 0 THEN 0 ELSE under), <<4, 1>>)

\* importArchiveDetailed against loadFromDirectory: what an import accepts is
\* accepted again, as the same theme, whenever it is read from the disk.
ImportedThemeLoadsAgain(json, files) ==
    \A theme \in AcceptedByImport(json, files) : loadFromDirectory(json, files) = {theme}

=============================================================================
