CONSTANTS
    MaxClients = 2
    SizeMax = 100
    Backlog = 1
    Fds = {f1, f2, f3}
    Events = {"POLLIN", "POLLOUT", "POLLERR"}
SPECIFICATION Spec
PROPERTIES
    Served
