------------------------------- MODULE Theme -------------------------------
(***************************************************************************)
(* theme.c: what the theme is made of and how it is returned.  An option   *)
(* is missing, is not what it should be, or there is no memory: all lead   *)
(* to the same error, and to the same release of what there is already.    *)
(***************************************************************************)
EXTENDS Memory

ThemePart == <<"theme", 0>>
BorderWidth == <<"border_width", 0>>
Color == <<"color", 0>>
ResizeBackground == <<"resize_background_color", 0>>
ResizeBorder == <<"resize_border_color", 0>>

\* struct color_theme: unfocused, focused, urgent, sticky
Shade(k) == <<"color_value", k>>
Shades == {Shade(k) : k \in 1 .. 4}

\* border_theme_from_config: four numbers, or their defaults.
BorderThemeFromConfig(s) == New(s, BorderWidth)

\* color_theme_destroy; the four are released if they are not NULL.
ColorThemeDestroy(s) ==
  FreeAll(s, {Color} \cup (Shades \cap s.set))

\* color_value_from_config_value, color_value_from_string, string_to_rgb
ColorValue(s, o) == New(s, o)

\* The four values of an option, one after another.
ColorValues(s) == ForEach(4, s, LAMBDA t, k : ColorValue(t, Shade(k)))

\* color_theme_from_config: color_theme_create sets the four to NULL.
ColorThemeFromConfig(s) ==
  LET fill(t) == OrElse(ColorValues(t), ColorThemeDestroy)
  IN  Then(Then(Calloc(s, Color), fill), LAMBDA t : {Done(Assign(t, Color))})

\* theme_destroy
ThemeDestroy(s) ==
  LET bordered == Release(s, BorderWidth, LAMBDA t : Free(t, BorderWidth))
      colored  == Release(bordered, Color, ColorThemeDestroy)
  IN  Free(colored, ThemePart)

\* The values of the resize helper, one after another.
ResizeColors(s) == Then(ColorValue(s, ResizeBackground), LAMBDA t : ColorValue(t, ResizeBorder))

ThemeFill(s) == Then(Then(BorderThemeFromConfig(s), ColorThemeFromConfig), ResizeColors)

\* theme_create
ThemeCreate(s) ==
  LET fill(t) == OrElse(ThemeFill(t), ThemeDestroy)
  IN  Then(Then(Malloc(s, ThemePart, {BorderWidth, Color, ResizeBackground, ResizeBorder}),
                fill),
           LAMBDA t : {Done(Assign(t, ThemePart))})
=============================================================================
