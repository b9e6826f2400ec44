------------------------------ MODULE MCPlugins ------------------------------
EXTENDS Plugins

\* Two directories, of which the first is the default one.
MCPaths == {1, 2}
===============================================================================
