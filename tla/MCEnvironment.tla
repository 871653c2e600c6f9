----------------------------- MODULE MCEnvironment -----------------------------
(* One variable of the login session, one of the locale and one other.         *)
EXTENDS Environment

CONSTANTS seat, lang, path, a, b

MCKeys == {seat, lang, path}
MCLogin == {seat}
MCLocale == {lang}
MCValues == {a, b}
================================================================================
