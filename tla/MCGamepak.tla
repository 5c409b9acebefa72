----------------------------- MODULE MCGamepak -----------------------------
(* Small instances of Gamepak: windows of a few pages, three buffers.  *)
EXTENDS Gamepak

\* Code runs in the first page only.
FirstPage == {0}
=============================================================================
