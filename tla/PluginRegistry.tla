----------------------------- MODULE PluginRegistry ----------------------------
(* The registry of plugins, of which the session manager and the daemon have    *)
(* one each (src/src/manager/pluginregistry.cpp, src/src/daemon/                *)
(* pluginregistry.cpp): what it finds, in the order it finds it, and which      *)
(* modules the program makes of that.                                           *)
(*                                                                              *)
(* A file is [meta, id, autoLoad, instance].  meta says what its metadata is:   *)
(* "none", "foreign" (the interface of something else), "untyped" (Type is not  *)
(* that of a module) or "module".  instance is the root object of the plugin:   *)
(* Null when it cannot be loaded, a member of Instances when its class is that  *)
(* of a module, any other value when it is not.                                 *)
EXTENDS Naturals, Sequences, Functions

CONSTANTS
  Null,
  Instances,   \* root objects of plugins that are modules
  Files,       \* what files there may be
  MaxFiles     \* bound: how many files, of the program and of the directory

ASSUME PluginRegistryAssumption ==
  /\ Null \notin Instances /\ MaxFiles \in Nat
  /\ \A f, g \in Files :
       f.instance = g.instance /\ f.instance \in Instances => f.id = g.id

Metas == {"none", "foreign", "untyped", "module"}

(* addPlugin() does not look at the instance: a plugin that cannot be loaded    *)
(* takes the place of one with the same Id.                                     *)
Accepted(file) == file.meta = "module"

(* Mutant: the first one of an Id stays. *)
FirstStays(plugins, file) ==
  [id \in DOMAIN plugins \cup {file.id} |-> IF id \in DOMAIN plugins THEN plugins[id] ELSE file]
Replaces(plugins, file) ==
  [id \in DOMAIN plugins \cup {file.id} |-> IF id = file.id THEN file ELSE plugins[id]]

addPlugin(plugins, file) ==
  IF Accepted(file) THEN Replaces(plugins, file) ELSE plugins

(* The registry after each file. *)
Found(files) ==
  LET found[n \in 0 .. Len(files)] ==
        IF n = 0 THEN <<>> ELSE addPlugin(found[n - 1], files[n])
  IN  found

(* discover(): the static plugins, then the files of the directory. *)
discover(static, directory) == Found(static \o directory)[Len(static \o directory)]

(* getInstance() and getNameForInstance(): the first name of the instance in    *)
(* the order of the map, left open here.                                        *)
getInstance(plugins, id) == IF id \in DOMAIN plugins THEN plugins[id].instance ELSE Null
NamesOf(plugins, instance) == {id \in DOMAIN plugins : plugins[id].instance = instance}

(* Mutant: the cast is not checked. *)
AnyPlugin(plugins, id) == TRUE
IsModule(plugins, id) == plugins[id].instance \in Instances

(* initialize() of the daemon and loadPlugins() of the session. *)
ModuleNames(plugins) == {id \in DOMAIN plugins : IsModule(plugins, id)}
AutoLoaded(plugins) == {id \in ModuleNames(plugins) : plugins[id].autoLoad}
--------------------------------------------------------------------------------
(* Property, of the files a program may find *)

(* The files that count: no accepted file after them has the same Id. *)
Newest(files) ==
  {i \in DOMAIN files :
     /\ Accepted(files[i])
     /\ \A j \in DOMAIN files : j > i /\ Accepted(files[j]) => files[j].id # files[i].id}

Agrees(static, directory) ==
  LET files == static \o directory
      plugins == discover(static, directory)
  IN  /\ Range(plugins) = {files[i] : i \in Newest(files)}
      /\ \A id \in DOMAIN plugins : plugins[id].id = id
      /\ \A id \in ModuleNames(plugins) : NamesOf(plugins, getInstance(plugins, id)) = {id}

(* Whatever plugins are built in and lie in the directory, each Id stands for   *)
(* the file that was found last, broken or not; and a module's name leads to it *)
(* and back: start(), shutdown() and the list of disabled modules go from the   *)
(* module to its name, loadModule() and unloadModule() from the name to it.     *)
AlwaysAgrees ==
  \A n \in 0 .. MaxFiles : \A files \in [1 .. n -> Files], k \in 0 .. MaxFiles :
    k <= n => Agrees(SubSeq(files, 1, k), SubSeq(files, k + 1, n))
================================================================================
