----------------------------- MODULE FileCommands -----------------------------
(* The programs that work on files and are not the service: calls through the    *)
(* query proxy; checks, finalizations and exports of an AKG document; assemblies  *)
(* of a YAML intermediary and builds of its graph; setups of the service and the *)
(* commands that act on what was set up.  Each family works on its own files.    *)
EXTENDS QueryProxy, AkgFinalize, AkgExport, YamlAssembly, GraphBuild, ServiceSetup

VARIABLE family   \* which of the programs run

commandVars == <<family, proxyVars, akgVars, export, assemblyVars, graphBuild, setupVars>>

Init == \/ /\ family = "proxy" /\ ProxyInit
           /\ AkgIdle /\ ExportIdle /\ AssemblyIdle /\ BuildIdle /\ SetupIdle
        \/ /\ family = "akg" /\ AkgInit
           /\ ProxyIdle /\ ExportIdle /\ AssemblyIdle /\ BuildIdle /\ SetupIdle
        \/ /\ family = "export" /\ ExportInit
           /\ ProxyIdle /\ AkgIdle /\ AssemblyIdle /\ BuildIdle /\ SetupIdle
        \/ /\ family = "assembly" /\ AssemblyInit
           /\ ProxyIdle /\ AkgIdle /\ ExportIdle /\ BuildIdle /\ SetupIdle
        \/ /\ family = "build" /\ BuildInit
           /\ ProxyIdle /\ AkgIdle /\ ExportIdle /\ AssemblyIdle /\ SetupIdle
        \/ /\ family = "setup" /\ SetupInit
           /\ ProxyIdle /\ AkgIdle /\ ExportIdle /\ AssemblyIdle /\ BuildIdle

Next ==
    /\ \/ family = "proxy"    /\ ProxyNext    /\ UNCHANGED <<akgVars, export, assemblyVars, graphBuild, setupVars>>
       \/ family = "akg"      /\ AkgNext      /\ UNCHANGED <<proxyVars, export, assemblyVars, graphBuild, setupVars>>
       \/ family = "export"   /\ ExportNext   /\ UNCHANGED <<proxyVars, akgVars, assemblyVars, graphBuild, setupVars>>
       \/ family = "assembly" /\ AssemblyNext /\ UNCHANGED <<proxyVars, akgVars, export, graphBuild, setupVars>>
       \/ family = "build"    /\ BuildNext    /\ UNCHANGED <<proxyVars, akgVars, export, assemblyVars, setupVars>>
       \/ family = "setup"    /\ SetupNext    /\ UNCHANGED <<proxyVars, akgVars, export, assemblyVars, graphBuild>>
    /\ UNCHANGED family

Spec == Init /\ [][Next]_commandVars
=============================================================================
