\* Two processes, upgrades of the package and of the toolkit (one of the two has
\* no version.cfg), one library of the runtime and the host library.
CONSTANTS
  p1 = p1
  p2 = p2
  Procs = {p1, p2}
  host = host
  runtime = runtime
  Kinds = {runtime, host}
  InPackage = {host}
  Sources = {1, 2}
  Toolkits = {1, 2}
  Versioned = {1}
  NoFile = NoFile
  Torn = Torn
SYMMETRY Symmetry
SPECIFICATION Spec
INVARIANTS
  LibrariesAreWhole
  LoadedIsOwn
