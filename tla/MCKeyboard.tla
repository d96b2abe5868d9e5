----------------------------- MODULE MCKeyboard -----------------------------
(* A keyboard with a letter and a key without a character; the scan          *)
(* code after the table, where a zero, a letter or a byte that no key has may *)
(* lie, and one beyond it; CapsLock; a key release.                          *)
EXTENDS Keyboard

MCScanSet == <<0, 5>>
MCScancodes == {0, 1, 2, 3, 6, 9}
=============================================================================
