----------------------------- MODULE DaemonPlugins -----------------------------
(* liri-daemon and its registry together: the modules that a daemon can start   *)
(* are those the registry makes of the plugins that are installed.              *)
EXTENDS Daemon, PluginRegistry

CONSTANTS
  Static,     \* the plugins that are linked into the program
  Directory   \* the files in the directory of daemon modules

Plugins == Static \o Directory
Installed == discover(Static, Directory)

ASSUME DaemonPluginsAssumption ==
  /\ Static \in Seq(Files) /\ Directory \in Seq(Files)
  /\ Modules = ModuleNames(Installed) /\ AutoLoad = AutoLoaded(Installed)

--------------------------------------------------------------------------------
(* Properties *)

(* Whatever files a daemon finds, its registry is right; and what a daemon has  *)
(* started is a module, the one that was found last under its name.             *)
RegistryRight ==
  /\ AlwaysAgrees
  /\ \A d \in Daemons : \A m \in loaded[d] :
       \E i \in Newest(Plugins) :
         /\ Plugins[i].id = m
         /\ getInstance(Installed, m) = Plugins[i].instance
         /\ getInstance(Installed, m) \in Instances
================================================================================
