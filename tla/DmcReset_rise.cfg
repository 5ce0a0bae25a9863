SPECIFICATION Spec
CONSTANT Causes = {"pgood"}
INVARIANT RiseReleases
