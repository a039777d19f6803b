SPECIFICATION Spec
CONSTANTS
    Port = {"8080", "12111", "12112"}
    Socket = {"a.sock"}
    DefaultHTTP = "12111"
    DefaultHTTPS = "12112"
    Asked = {"8080"}
    None = "none"
    Garbage = "x80"
    Contended = {"8080"}
INVARIANTS UnixSocketWorks
