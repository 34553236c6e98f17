----------------------------- MODULE SkinTheme -----------------------------
(***************************************************************************)
(* SkinLoader.cpp and ThemeManager.cpp: what a theme.json and its images   *)
(* are accepted as, and the text the application draws with the result.    *)
(* A colour has a luminance from 0 to 100, a tone and an opacity; a ratio  *)
(* is a pair.  What may be absent is a set of at most one element.         *)
(***************************************************************************)
EXTENDS SkinArchive, Integers, FiniteSetsExt

CONSTANTS
    kMaxImageDimension, kMaxDecodedImagePixels,
    DefaultPalette,      \* function: the colour of every role where a theme has none
    DefaultTraces, BrightTraces, DarkTraces      \* sequences of colours of one length

kMaxTextureOpacity == 20           \* in hundredths
kMinimumTraceColorDeltaE == 10

Backgrounds == {"bg_base", "bg_dark", "bg_panel", "bg_input", "bg_button", "btn_hover",
                "btn_pressed", "select_bg", "success_bg", "warning_bg", "info_bg"}
Regions == {"sidebar", "toolbar", "panel", "chart_bg", "settings_bg"}

\* The length of an optional string, -1 where the field is absent and 0 where it
\* is empty or no string.
readOptionalString(length, maximum) == length = -1 \/ length \in 1 .. maximum

-----------------------------------------------------------------------------
\* Contrast.

AtLeastRatio(r, s) == r[1] * s[2] >= s[1] * r[2]

contrastRatio(c, d) ==
    <<Max({c.luminance, d.luminance}) + 5, Min({c.luminance, d.luminance}) + 5>>

hasMinimumContrast(c, d, minimum) == AtLeastRatio(contrastRatio(c, d), minimum)

Legible == <<9, 2>>
Visible == <<3, 1>>
FallbackContrast == <<13, 4>>

\* A distance that is 0 for equal colours and grows with lightness and hue.
colorDistance(c, d) ==
    Max({c.luminance - d.luminance, d.luminance - c.luminance})
    + Max({c.tone - d.tone, d.tone - c.tone})

Grey(luminance) == [luminance |-> luminance, tone |-> 0, opaque |-> TRUE]

\* The colours of the traces where a theme has none: of each pair the one that
\* stands out more, moved towards black or white until it stands out enough.
fallbackTraceColors(base, panel) ==
    LET least(c) == IF AtLeastRatio(contrastRatio(c, base), contrastRatio(c, panel))
                    THEN contrastRatio(c, panel) ELSE contrastRatio(c, base)
        target == IF AtLeastRatio(least(Grey(0)), least(Grey(100))) THEN 0 ELSE 100
        Moved(c, step) ==
            IF AtLeastRatio(least(c), FallbackContrast) THEN c
            ELSE [c EXCEPT !.luminance = (@ * (20 - step) + target * step) \div 20,
                           !.tone = (@ * (20 - step)) \div 20]
    IN  [i \in DOMAIN BrightTraces |->
            LET better == IF AtLeastRatio(least(BrightTraces[i]), least(DarkTraces[i]))
                          THEN BrightTraces[i] ELSE DarkTraces[i]
            IN  FoldLeft(Moved, better, [step \in 1 .. 20 |-> step])]

\* Mutant: dimmed text is never looked at on the background of an input.
Bug_LegiblePairs ==
    {<<"text_primary", b>> : b \in {"bg_base", "bg_dark", "bg_panel", "bg_input", "bg_button",
                                    "btn_hover", "btn_pressed", "select_bg"}}
    \cup {<<t, b>> : t \in {"text_mid", "text_muted", "text_dim"},
                     b \in {"bg_base", "bg_dark", "bg_panel"}}
    \cup {<<"text_muted", "bg_input">>, <<"text_muted", "bg_button">>}
    \cup {<<"accent_link", b>> : b \in {"bg_base", "bg_dark", "bg_panel", "bg_input"}}
    \cup {<<"danger", "bg_base">>, <<"error", "bg_dark">>, <<"success", "success_bg">>,
          <<"warning", "warning_bg">>, <<"info", "info_bg">>}

\* The pairs of roles whose contrast is asked for: text and links, and the rest.
LegiblePairs ==
    {<<"text_primary", b>> : b \in {"bg_base", "bg_dark", "bg_panel", "bg_input", "bg_button",
                                    "btn_hover", "btn_pressed", "select_bg"}}
    \cup {<<t, b>> : t \in {"text_mid", "text_muted", "text_dim"},
                     b \in {"bg_base", "bg_dark", "bg_panel"}}
    \cup {<<"text_dim", "bg_input">>, <<"text_muted", "bg_input">>, <<"text_muted", "bg_button">>}
    \cup {<<"accent_link", b>> : b \in {"bg_base", "bg_dark", "bg_panel", "bg_input"}}
    \cup {<<"danger", "bg_base">>, <<"error", "bg_dark">>, <<"success", "success_bg">>,
          <<"warning", "warning_bg">>, <<"info", "info_bg">>}

VisiblePairs ==
    {<<"focus_ring", b>> : b \in {"bg_base", "bg_input", "bg_button", "bg_panel"}}
    \cup {<<"border_default", b>> : b \in {"bg_base", "bg_input", "bg_panel"}}
    \cup {<<"accent_checkbox", "bg_input">>, <<"border_light", "bg_button">>,
          <<"border_panel", "bg_panel">>, <<"select_bg", "bg_base">>,
          <<"accent_checkbox_border", "bg_input">>}

validatePaletteContrast(palette, traces, supplied) ==
    /\ \A p \in LegiblePairs : hasMinimumContrast(palette[p[1]], palette[p[2]], Legible)
    /\ \A p \in VisiblePairs : hasMinimumContrast(palette[p[1]], palette[p[2]], Visible)
    /\ \A i \in DOMAIN traces : \A b \in {"bg_base", "bg_panel"} :
           hasMinimumContrast(traces[i], palette[b], Visible)
    /\ supplied => \A i, j \in DOMAIN traces :
           i # j => colorDistance(traces[i], traces[j]) >= kMinimumTraceColorDeltaE

-----------------------------------------------------------------------------
\* Images.

validatePng(image) ==
    /\ image.png /\ image.decodes /\ image.bytes <= kMaxImageBytes
    /\ image.width \in 1 .. kMaxImageDimension /\ image.height \in 1 .. kMaxImageDimension

Area(image) == image.width * image.height

readValidatedPng(files, path) ==
    path \in DOMAIN files /\ files[path].regular /\ files[path].bytes > 0 /\ validatePng(files[path])

isSafeTexturePath(path) == Len(path) = 2 /\ path[1] = "textures" /\ path[2] \in TextureFiles

\* Each pixel of the panel texture, laid over the panel as it is drawn.
validatePanelTextureContrast(theme, files) ==
    LET image == files[theme.textures["panel"]]
        Drawn(pixel) ==
            LET alpha == (theme.opacity * pixel.alpha) \div 100
            IN  Grey((pixel.luminance * alpha
                      + theme.palette["bg_panel"].luminance * (100 - alpha) + 50) \div 100)
        Stands(role, pixel, minimum) ==
            hasMinimumContrast(theme.palette[role], Drawn(pixel), minimum)
    IN  "panel" \in DOMAIN theme.textures =>
            /\ readValidatedPng(files, theme.textures["panel"])
            /\ theme.opacity > 0 => \A i \in DOMAIN image.pixels :
                   /\ \A r \in {"text_primary", "text_muted", "text_dim"} :
                          Stands(r, image.pixels[i], Legible)
                   /\ \A r \in {"border_panel", "border_default", "accent_link"} :
                          Stands(r, image.pixels[i], Visible)

\* The images a theme shows, within the budget of decoded pixels.
validateInstalledThemeImages(theme, files) ==
    LET shown == {theme.textures[r] : r \in DOMAIN theme.textures} \cup theme.preview
    IN  /\ \A path \in shown : readValidatedPng(files, path)
        /\ MapThenSumSet(LAMBDA path : Area(files[path]), shown) <= kMaxDecodedImagePixels

-----------------------------------------------------------------------------
\* theme.json.

ValidColors(colors) ==
    \A r \in DOMAIN colors : colors[r].luminance >= 0
                             /\ (r # "focus_ring_offset" => colors[r].opaque)

ValidTraces(traces) ==
    /\ Len(traces) = Len(BrightTraces)
    /\ \A i \in DOMAIN traces : traces[i].luminance >= 0 /\ traces[i].opaque

\* The palette of a theme: the colours it has over those of the default.
PaletteOf(colors) == [r \in DOMAIN DefaultPalette |-> IF r \in DOMAIN colors THEN colors[r]
                                                      ELSE DefaultPalette[r]]

TracesOf(json) ==
    IF json.palette = {} THEN DefaultTraces
    ELSE LET p == CHOOSE q \in json.palette : TRUE
             colors == PaletteOf(p.colors)
         IN  IF p.traces = {} THEN fallbackTraceColors(colors["bg_base"], colors["bg_panel"])
             ELSE CHOOSE t \in p.traces : TRUE

ValidTextures(textures, files) ==
    /\ DOMAIN textures \subseteq Regions
    /\ \A r \in DOMAIN textures :
           /\ isSafeTexturePath(textures[r])
           /\ textures[r] \in DOMAIN files /\ files[textures[r]].regular
           /\ \A s \in DOMAIN textures : textures[s] = textures[r] => s = r

Preview == <<"preview.png">>

\* The theme a file stands for beside the images of its skin, or none.
parseThemeJson(json, files) ==
    LET colors == UNION {DOMAIN p.colors : p \in json.palette}
        palette == PaletteOf([r \in colors |-> (CHOOSE p \in json.palette : TRUE).colors[r]])
        theme == [palette |-> palette, traces |-> TracesOf(json), textures |-> json.textures,
                  opacity |-> IF json.opacity = -1 THEN 15
                              ELSE Min({json.opacity, kMaxTextureOpacity}),
                  mode |-> IF json.mode = "absent" THEN "Tile" ELSE json.mode,
                  preview |-> {Preview} \cap DOMAIN files]
    IN  IF /\ json.bytes \in 1 .. kMaxThemeBytes /\ json.parses
           /\ readOptionalString(json.name, 80) /\ readOptionalString(json.author, 120)
           /\ readOptionalString(json.version, 32)
           /\ \A path \in theme.preview : files[path].regular
           /\ \A p \in json.palette : ValidColors(p.colors) /\ \A t \in p.traces : ValidTraces(t)
           /\ \A b \in Backgrounds : palette[b].opaque
           /\ validatePaletteContrast(palette, theme.traces,
                                      \E p \in json.palette : p.traces # {})
           /\ ValidTextures(json.textures, files)
           /\ json.opacity \in -1 .. 100
           /\ json.mode \in {"absent", "Tile", "Stretch", "Cover"}
           /\ validatePanelTextureContrast(theme, files)
        THEN {theme} ELSE {}

loadFromDirectory(json, files) ==
    {t \in parseThemeJson(json, files) : validateInstalledThemeImages(t, files)}

\* What an import accepts: every image of the archive, the theme, and no texture
\* the theme does not name.
AcceptedByImport(json, files) ==
    {t \in parseThemeJson(json, files) :
        /\ \A path \in DOMAIN files : validatePng(files[path])
        /\ MapThenSumSet(LAMBDA path : Area(files[path]), DOMAIN files) <= kMaxDecodedImagePixels
        /\ \A path \in DOMAIN files \ {Preview} :
               \E r \in DOMAIN t.textures : t.textures[r] = path}

-----------------------------------------------------------------------------
\* The text drawn with a palette: a role on a background.

PaletteText ==
    {<<"text_primary", b>> : b \in {"bg_base", "bg_button", "bg_input", "bg_panel", "select_bg"}}
    \cup {<<"accent_link", b>> : b \in {"bg_base", "bg_input", "bg_panel"}}
    \cup {<<"text_muted", b>> : b \in {"bg_base", "bg_panel", "bg_input"}}
    \cup {<<"text_dim", "bg_input">>}

\* generateQss: windows, buttons, fields, tabs and tool tips.
StyledText ==
    {<<"text_primary", b>> : b \in {"bg_base", "bg_button", "btn_hover", "btn_pressed",
                                    "select_bg", "bg_input", "bg_panel"}}
    \cup {<<"text_muted", b>> : b \in {"bg_panel", "bg_dark"}}
    \cup {<<"text_mid", b>> : b \in {"bg_base", "bg_panel"}}

\* generateQss: disabled fields, item views, menus and the status bar.
StyledLists ==
    {<<"text_primary", b>> : b \in {"bg_input", "select_bg", "bg_panel", "bg_dark", "bg_base"}}
    \cup {<<"text_muted", b>> : b \in {"bg_panel", "bg_input", "bg_dark"}}
    \cup {<<"text_mid", "bg_dark">>}

=============================================================================
