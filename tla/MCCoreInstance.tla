---------------------------- MODULE MCCoreInstance ----------------------------
EXTENDS CoreInstance, TLC

\* Every handler but LibraryInstall; LibraryInstall with the handlers that take
\* one lock at a time.
OrderedMixes ==
    {Ops \ {"LibraryInstall"},
     {"LibraryInstall", "LibraryUninstall", "ImportLibrary", "PlatformUninstall",
      "Explore", "Init", "Destroy"}}

\* Calls are interchangeable: which of them runs which handler is not fixed.
CallSymmetry == Permutations(Calls)
=============================================================================
