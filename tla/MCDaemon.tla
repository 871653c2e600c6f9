-------------------------------- MODULE MCDaemon -------------------------------
(* The unit of the locale module, a daemon started by hand for the same module, *)
(* one for a module that is on demand only, and one without --module.           *)
EXTENDS DaemonPlugins

CONSTANTS unit, byHand, onDemandOne, plain, locale, rare, broken, widget

MCDaemons == {unit, byHand, onDemandOne, plain}
MCUnits == {unit}

(* The two modules, an older locale module, plugins that cannot be loaded, one  *)
(* with the name of the locale module, one that is no module, and three that    *)
(* the metadata rules out.                                                      *)
File(meta, id, autoLoad, instance) ==
  [meta |-> meta, id |-> id, autoLoad |-> autoLoad, instance |-> instance]
MCInstances == {"locale", "old locale", "rare"}
MCFiles ==
  { File("module", locale, TRUE, "locale"), File("module", locale, TRUE, "old locale"),
    File("module", rare, FALSE, "rare"),
    File("module", locale, TRUE, "null"), File("module", broken, TRUE, "null"),
    File("module", widget, TRUE, "widget"),
    File("none", locale, TRUE, "null"), File("foreign", rare, TRUE, "widget"),
    File("untyped", locale, TRUE, "locale") }

(* What is installed. *)
MCStatic == << File("module", locale, TRUE, "old locale") >>
MCDirectory ==
  << File("module", broken, TRUE, "null"), File("module", locale, TRUE, "locale"),
     File("untyped", locale, TRUE, "locale"),
     File("module", rare, FALSE, "rare"), File("module", widget, TRUE, "widget") >>
MCModules == ModuleNames(discover(MCStatic, MCDirectory))
MCAutoLoad == AutoLoaded(discover(MCStatic, MCDirectory))
MCAsked ==
  [d \in MCDaemons |->
     CASE d \in {unit, byHand} -> locale
       [] d = onDemandOne -> rare
       [] d = plain -> Nothing]
================================================================================
